---- MODULE Spec2Model ----
(***************************************************************************)
(* Verification model of gptb2o: the Anthropic-style Stream Translator     *)
(* (openaihttp/claude.go), the request/retry orchestrator and the SSE      *)
(* frame reader / event interpreter (backend/chat_model.go), and the       *)
(* OpenAI-style Chunk Translator (openaihttp/compat.go).                   *)
(*                                                                         *)
(* Text is a sequence of one-character strings.  Tool-call argument        *)
(* strings are sequences over a small JSON alphabet: "{" and "}" delimit   *)
(* an object, a key letter stands for one member ("a" for "a":1,), "1" is  *)
(* a scalar document and " " is whitespace.                                *)
(***************************************************************************)
EXTENDS Integers, Sequences, FiniteSets, TLC

\* ------------------------------------------------------------------------
\* Bounds of the model
\* ------------------------------------------------------------------------
MaxTextLen == 5
MaxIncLen == 2
MaxToolCalls == 1
PipeCap == 1
MaxWrites == 5
MaxBodyLines == 3
MaxArgLen == 4
MaxNotifications == 2
GateMaxTokens == 4

\* ------------------------------------------------------------------------
\* Program constants
\* ------------------------------------------------------------------------
CharsPerToken == 4
ToolCallChanCap == 16

\* ------------------------------------------------------------------------
\* Strings as sequences
\* ------------------------------------------------------------------------
Range(s) == {s[i] : i \in 1..Len(s)}

SeqsUpTo(S, n) == UNION {[1..k -> S] : k \in 0..n}

RECURSIVE Concat(_)
Concat(ss) == IF ss = <<>> THEN <<>> ELSE Head(ss) \o Concat(Tail(ss))

\* s[:n] and s[n:] of Go, n a 0-based byte offset
Take(s, n) == SubSeq(s, 1, n)
Drop(s, n) == SubSeq(s, n + 1, Len(s))

OccursAt(s, seq, i) ==
    /\ i + Len(seq) - 1 <= Len(s)
    /\ SubSeq(s, i, i + Len(seq) - 1) = seq

\* strings.Index: 0-based offset of the first occurrence, -1 when absent
Index(s, seq) ==
    LET hits == {i \in 1..(Len(s) + 1) : OccursAt(s, seq, i)}
    IN  IF hits = {} THEN 0 - 1
        ELSE (CHOOSE i \in hits : \A j \in hits : i <= j) - 1

Contains(s, seq) == Index(s, seq) >= 0

IsSpace(c) == c = " "

\* strings.TrimSpace on a sequence of characters
RECURSIVE TrimLeft(_)
TrimLeft(s) == IF s # <<>> /\ IsSpace(Head(s)) THEN TrimLeft(Tail(s)) ELSE s

RECURSIVE TrimRight(_)
TrimRight(s) ==
    IF s # <<>> /\ IsSpace(s[Len(s)]) THEN TrimRight(Take(s, Len(s) - 1)) ELSE s

TrimSpace(s) == TrimRight(TrimLeft(s))

\* strings.TrimSpace / strings.ToLower on the identifiers, names and
\* statuses the model uses (atoms are TLA+ strings)
TrimSpaceStr(a) ==
    CASE a = " Task " -> "Task"
      [] a = " completed " -> "completed"
      [] a = " i1 " -> "i1"
      [] a = " " -> ""
      [] a = " response.created " -> "response.created"
      [] OTHER -> a

ToLowerStr(a) ==
    CASE a = "Task" -> "task"
      [] a = "TASK" -> "task"
      [] a = "Completed" -> "completed"
      [] a = "In_Progress" -> "in_progress"
      [] OTHER -> a

EqualFold(a, b) == ToLowerStr(a) = ToLowerStr(b)

\* ------------------------------------------------------------------------
\* encoding/json on argument strings
\* ------------------------------------------------------------------------
KeyOrder == <<"a", "b", "d", "p", "s">>
JSONKeys == Range(KeyOrder)

StripWS(s) == SelectSeq(s, LAMBDA c : ~IsSpace(c))

\* json.Unmarshal into map[string]any succeeds
IsJSONObject(s) ==
    LET t == StripWS(s)
    IN  /\ Len(t) >= 2
        /\ t[1] = "{"
        /\ t[Len(t)] = "}"
        /\ \A i \in 2..(Len(t) - 1) : t[i] \in JSONKeys

IsJSONScalar(s) == StripWS(s) = <<"1">>

\* the JSON document null, written "n"
IsJSONNull(s) == StripWS(s) = <<"n">>

\* json.Unmarshal into any succeeds
IsJSON(s) == IsJSONObject(s) \/ IsJSONScalar(s) \/ IsJSONNull(s)

\* json.Unmarshal into a map[string]any returns no error: a JSON object
\* fills the map, and JSON null leaves it nil
UnmarshalsIntoMap(s) == IsJSONObject(s) \/ IsJSONNull(s)

ObjectKeys(s) == {c \in Range(StripWS(s)) : c \in JSONKeys}

\* variant: the members keep the order in which they were written
MarshalJSON_Mut(s) == StripWS(s)

\* json.Marshal of the decoded document: members sorted by key, no blanks
MarshalJSON(s) ==
    IF IsJSONObject(s)
    THEN <<"{">> \o SelectSeq(KeyOrder, LAMBDA k : k \in ObjectKeys(s)) \o <<"}">>
    ELSE StripWS(s)

normalizeJSONArgumentString_Mut(raw) == TrimSpace(raw)

normalizeJSONArgumentString(raw) ==
    LET trimmed == TrimSpace(raw)
    IN  IF trimmed = <<>> THEN trimmed
        ELSE IF ~IsJSON(trimmed) THEN trimmed
        ELSE MarshalJSON(trimmed)

\* ------------------------------------------------------------------------
\* Tool-call gating shared by both translators (openaihttp/compat.go)
\* ------------------------------------------------------------------------
IsTaskName(name) == EqualFold(TrimSpaceStr(name), "Task")

requiresCompletedToolCall(name) == IsTaskName(name)
requiresNonEmptyToolArguments(name) == IsTaskName(name)
requiresJSONObjectToolArguments(name) == IsTaskName(name)
requiresTaskCoreFields_Mut(name) == FALSE

requiresTaskCoreFields(name) == IsTaskName(name)

\* the members "d", "p", "s" stand for non-empty description, prompt and
\* subagent_type strings
hasNonEmptyStringField(s, key) == key \in ObjectKeys(s)

Rejected(lastArgs) == [args |-> <<>>, ok |-> FALSE, lastArgs |-> lastArgs]

MapPut(m, k, v) == [j \in DOMAIN m \cup {k} |-> IF j = k THEN v ELSE m[j]]

\* toolCallArgumentsForStream once the arguments are normalized
gateNormalizedArguments(toolName, callID, args, lastArgs) ==
    IF /\ requiresJSONObjectToolArguments(toolName)
       /\ (~IsJSONObject(args) \/ ObjectKeys(args) = {})
    THEN Rejected(lastArgs)
    ELSE IF /\ requiresJSONObjectToolArguments(toolName)
            /\ requiresTaskCoreFields(toolName)
            /\ (\/ ~hasNonEmptyStringField(args, "d")
                \/ ~hasNonEmptyStringField(args, "p")
                \/ ~hasNonEmptyStringField(args, "s"))
    THEN Rejected(lastArgs)
    ELSE IF callID \in DOMAIN lastArgs /\ lastArgs[callID] = args
    THEN Rejected(lastArgs)
    ELSE [args |-> args, ok |-> TRUE, lastArgs |-> MapPut(lastArgs, callID, args)]

\* toolCallArgumentsForStream once id, name, status and arguments are trimmed
gateTrimmedCall(call, callID, toolName, callStatus, args, lastArgs) ==
    IF callID = "" THEN Rejected(lastArgs)
    ELSE IF requiresCompletedToolCall(toolName) /\ ~EqualFold(callStatus, "completed")
    THEN Rejected(lastArgs)
    ELSE IF requiresNonEmptyToolArguments(toolName) /\ (args = <<>> \/ args = <<"{", "}">>)
    THEN Rejected(lastArgs)
    ELSE IF args = <<>> /\ call.status # "" /\ call.status # "completed"
    THEN Rejected(lastArgs)
    ELSE gateNormalizedArguments(toolName, callID,
             normalizeJSONArgumentString(IF args = <<>> THEN <<"{", "}">> ELSE args),
             lastArgs)

\* result: [args, ok, lastArgs]
toolCallArgumentsForStream(call, lastArgs) ==
    gateTrimmedCall(call, TrimSpaceStr(call.id), TrimSpaceStr(call.name),
                    TrimSpaceStr(call.status), TrimSpace(call.args), lastArgs)

\* the test toolCallArgumentsForClaudeStream adds to the result r:
\* json.Unmarshal of the arguments into a map[string]any
requireJSONObject(r) ==
    IF ~r.ok THEN r
    ELSE IF ~UnmarshalsIntoMap(r.args) THEN Rejected(r.lastArgs)
    ELSE r

toolCallArgumentsForClaudeStream(call, lastArgs) ==
    IF ~EqualFold(TrimSpaceStr(call.status), "completed")
    THEN Rejected(lastArgs)
    ELSE requireJSONObject(toolCallArgumentsForStream(call, lastArgs))

\* the payload claudeToolUseStreamPayloadFromCall builds from the result r
toolUsePayload(callID, name, r) ==
    IF ~r.ok
    THEN [callID |-> "", name |-> "", args |-> <<>>, ok |-> FALSE, lastArgs |-> r.lastArgs]
    ELSE [callID |-> callID, name |-> name, args |-> r.args, ok |-> TRUE,
          lastArgs |-> r.lastArgs]

\* result: [callID, name, args, ok, lastArgs]
claudeToolUseStreamPayloadFromCall(call, lastArgs) ==
    IF TrimSpaceStr(call.name) = "" \/ TrimSpaceStr(call.id) = ""
    THEN toolUsePayload("", "", Rejected(lastArgs))
    ELSE toolUsePayload(TrimSpaceStr(call.id), TrimSpaceStr(call.name),
                        toolCallArgumentsForClaudeStream(call, lastArgs))

\* ------------------------------------------------------------------------
\* Stream Translator (openaihttp/claude.go, writeMessagesStream)
\* ------------------------------------------------------------------------
VARIABLES
    cfg,            \* stopSequences, maxTokens, disableParallelToolUse of the request
    tr,             \* the local variables of writeMessagesStream, its position (pc),
                    \* the SSE events written so far (out), whether cancel() was
                    \* called (cancelled), and the stop conditions detected (trig)
    srPipe,         \* text messages sent by the reader worker, not yet received
    srClosed,       \* "" while the pipe is open, else "eof" or "err"
    toolCallChan,   \* tool-call notifications not yet drained
    sentText,       \* history: the text the worker sent so far
    sentCalls,      \* history: number of notifications the worker produced
    rq,             \* the local variables of doStreamRequest (currentPayload, the two
                    \* retried flags), its position (pc), its return value (result),
                    \* and as history the payloads sent upstream (requests), the
                    \* responses received (responses) and the repairs applied (repairs)
    rd,             \* the local variables of readBackendSSE (dataLines, fullContent,
                    \* hasDelta, functionCalls), its position and return value, and
                    \* as history what the last iteration read and did
    ct,             \* the local variables of handleStreamResponse and its output
    up              \* the upstream response body: the lines written and not yet
                    \* read, whether the body has ended, and as history the
                    \* increments the upstream meant to send

pipeVars == <<srPipe, srClosed, toolCallChan>>
streamVars == <<cfg, tr, sentText, sentCalls>>
retryVars == <<rq>>
readerVars == <<rd, ct, up>>

vars == <<pipeVars, streamVars, retryVars, readerVars>>

\* a component that takes no part in a specification stays idle
Idle == [pc |-> "idle"]

TextAlphabet == {"S", "T"}

Increments == SeqsUpTo(TextAlphabet, MaxIncLen) \ {<<>>}

\* request stop_sequences after normalizeClaudeStopSequences: trimmed,
\* non-empty, without duplicates
StopSequenceChoices ==
    { <<>>,
      << <<"T">> >>,
      << <<"S", "T">> >>,
      << <<"T", "T">>, <<"S", "T", "S">> >> }

MaxTokensChoices == {1, 2}

ToolCallChoices ==
    { [id |-> "c1", name |-> "f", args |-> <<"{", "a", "}">>, status |-> "completed"],
      [id |-> "c1", name |-> "f", args |-> <<"{", "a">>, status |-> "in_progress"],
      [id |-> "c2", name |-> "Task", args |-> <<"{", "d", "}">>, status |-> "completed"] }

Event(ev, index, btype, text) ==
    [ev |-> ev, index |-> index, btype |-> btype, text |-> text]

\* the content_block_start of a tool_use block, with the call id and the name
ToolUseStart(index, id, name) ==
    [ev |-> "content_block_start", index |-> index, btype |-> "tool_use",
     text |-> <<>>, id |-> id, name |-> name]

maxClaudeStopSequenceLen(stopSequences) ==
    IF stopSequences = <<>> THEN 0
    ELSE LET lens == {Len(stopSequences[i]) : i \in 1..Len(stopSequences)}
         IN  CHOOSE m \in lens : \A l \in lens : l <= m

maxCharsOf(maxTokens) == IF maxTokens > 0 THEN maxTokens * CharsPerToken ELSE 0

\* result: [idx, seq, ok]
RECURSIVE findFirstFrom(_, _, _, _, _)
findFirstFrom(s, stopSequences, k, bestIdx, bestSeq) ==
    IF k > Len(stopSequences)
    THEN IF bestIdx < 0 THEN [idx |-> 0, seq |-> <<>>, ok |-> FALSE]
         ELSE [idx |-> bestIdx, seq |-> bestSeq, ok |-> TRUE]
    ELSE LET seq == stopSequences[k]
             idx == Index(s, seq)
         IN  IF seq = <<>> \/ idx < 0
             THEN findFirstFrom(s, stopSequences, k + 1, bestIdx, bestSeq)
             ELSE IF \/ bestIdx < 0
                     \/ idx < bestIdx
                     \/ (idx = bestIdx /\ Len(seq) > Len(bestSeq))
             THEN findFirstFrom(s, stopSequences, k + 1, idx, seq)
             ELSE findFirstFrom(s, stopSequences, k + 1, bestIdx, bestSeq)

findFirstClaudeStopSequence(s, stopSequences) ==
    IF s = <<>> \/ Len(stopSequences) = 0
    THEN [idx |-> 0, seq |-> <<>>, ok |-> FALSE]
    ELSE findFirstFrom(s, stopSequences, 1, 0 - 1, <<>>)

\* The closures of writeMessagesStream act on a record x that holds the
\* local variables together with the output written (x.out), the cancel
\* flag (x.cancelled) and the trigger history (x.trig).
closeTextBlock(x) ==
    IF ~x.textBlockOpen THEN x
    ELSE [x EXCEPT !.out = Append(@, Event("content_block_stop", x.textBlockIndex, "", <<>>)),
                   !.textBlockOpen = FALSE]

startTextBlock(x) ==
    IF x.textBlockOpen THEN x
    ELSE [x EXCEPT !.textBlockIndex = x.blockIndex,
                   !.blockIndex = x.blockIndex + 1,
                   !.out = Append(@, Event("content_block_start", x.blockIndex, "text", <<>>)),
                   !.textBlockOpen = TRUE,
                   !.emittedContentBlock = TRUE]

appendTextDelta(y, delta) ==
    [y EXCEPT !.out = Append(@, Event("content_block_delta", y.textBlockIndex, "text_delta", delta)),
              !.outputChars = @ + Len(delta)]

emitTextDelta(x, delta) ==
    IF delta = <<>> THEN x
    ELSE appendTextDelta(IF ~x.textBlockOpen THEN startTextBlock(x) ELSE x, delta)

\* variant: the stop condition is recorded without calling cancel()
recordStop_Mut(y, reason, seq) ==
    [y EXCEPT !.textBuf = <<>>,
              !.stopReason = reason,
              !.stopSequence = seq,
              !.stopTriggered = TRUE,
              !.trig = Append(@, reason)]

\* the assignments that record a stop condition and cancel upstream
recordStop(y, reason, seq) ==
    [y EXCEPT !.textBuf = <<>>,
              !.stopReason = reason,
              !.stopSequence = seq,
              !.stopTriggered = TRUE,
              !.cancelled = TRUE,
              !.trig = Append(@, reason)]

\* truncateToBudget with an off-by-one allowance
truncateToBudget_Mut(x, maxChars) ==
    recordStop(IF maxChars - x.outputChars + 1 > 0
               THEN emitTextDelta(x, Take(x.textBuf, maxChars - x.outputChars + 1))
               ELSE x,
               "max_tokens", <<>>)

\* the max_tokens branch shared by emitTextSafe and flushAllTextBuf
truncateToBudget(x, maxChars) ==
    recordStop(IF maxChars - x.outputChars > 0
               THEN emitTextDelta(x, Take(x.textBuf, maxChars - x.outputChars))
               ELSE x,
               "max_tokens", <<>>)

stopAtSequence(x, hit) ==
    recordStop(IF hit.idx > 0 THEN emitTextDelta(x, Take(x.textBuf, hit.idx)) ELSE x,
               "stop_sequence", hit.seq)

RECURSIVE emitTextSafeLoop(_, _)

\* variant: the safe length keeps maxStopLen bytes back
scanAndEmit_Mut(x, c, hit, maxStopLen) ==
    IF hit.ok THEN stopAtSequence(x, hit)
    ELSE IF maxStopLen <= 1
    THEN IF x.textBuf # <<>>
         THEN [emitTextDelta(x, x.textBuf) EXCEPT !.textBuf = <<>>]
         ELSE x
    ELSE IF Len(x.textBuf) - maxStopLen <= 0 THEN x
    ELSE emitTextSafeLoop(
             [emitTextDelta(x, Take(x.textBuf, Len(x.textBuf) - maxStopLen)) EXCEPT
                  !.textBuf = Drop(x.textBuf, Len(x.textBuf) - maxStopLen)], c)

\* the part of the loop body after the max_tokens test
scanAndEmit(x, c, hit, maxStopLen) ==
    IF hit.ok THEN stopAtSequence(x, hit)
    ELSE IF maxStopLen <= 1
    THEN IF x.textBuf # <<>>
         THEN [emitTextDelta(x, x.textBuf) EXCEPT !.textBuf = <<>>]
         ELSE x
    ELSE IF Len(x.textBuf) - (maxStopLen - 1) <= 0 THEN x
    ELSE emitTextSafeLoop(
             [emitTextDelta(x, Take(x.textBuf, Len(x.textBuf) - (maxStopLen - 1))) EXCEPT
                  !.textBuf = Drop(x.textBuf, Len(x.textBuf) - (maxStopLen - 1))], c)

emitTextSafeLoop(x, c) ==
    IF x.stopTriggered THEN x
    ELSE IF maxCharsOf(c.maxTokens) > 0
            /\ x.outputChars + Len(x.textBuf) > maxCharsOf(c.maxTokens)
    THEN truncateToBudget(x, maxCharsOf(c.maxTokens))
    ELSE scanAndEmit(x, c, findFirstClaudeStopSequence(x.textBuf, c.stopSequences),
                     maxClaudeStopSequenceLen(c.stopSequences))

emitTextSafe(x, c, delta) ==
    IF delta = <<>> \/ x.stopTriggered THEN x
    ELSE emitTextSafeLoop([x EXCEPT !.textBuf = @ \o delta], c)

flushAllTextBuf(x, c) ==
    IF x.textBuf = <<>> \/ x.stopTriggered
    THEN [x EXCEPT !.textBuf = <<>>]
    ELSE IF maxCharsOf(c.maxTokens) > 0
            /\ x.outputChars + Len(x.textBuf) > maxCharsOf(c.maxTokens)
    THEN truncateToBudget(x, maxCharsOf(c.maxTokens))
    ELSE [emitTextDelta(x, x.textBuf) EXCEPT !.textBuf = <<>>]

\* variant: the tool_use block does not advance blockIndex
writeToolUseBlock_Mut(y, p) ==
    [y EXCEPT
        !.out = @ \o << ToolUseStart(y.blockIndex, p.callID, p.name),
                        Event("content_block_delta", y.blockIndex, "input_json_delta", p.args),
                        Event("content_block_stop", y.blockIndex, "", <<>>) >>,
        !.hasToolUse = TRUE,
        !.outputChars = @ + Len(p.args),
        !.emittedContentBlock = TRUE]

\* the tool_use triplet written after the text block is flushed and closed
writeToolUseBlock(y, p) ==
    [y EXCEPT
        !.out = @ \o << ToolUseStart(y.blockIndex, p.callID, p.name),
                        Event("content_block_delta", y.blockIndex, "input_json_delta", p.args),
                        Event("content_block_stop", y.blockIndex, "", <<>>) >>,
        !.blockIndex = y.blockIndex + 1,
        !.hasToolUse = TRUE,
        !.outputChars = @ + Len(p.args),
        !.emittedContentBlock = TRUE]

\* variant: the tool_use block is written with the text block left open
emitToolUse_Mut(x, c, p) ==
    IF ~p.ok THEN [x EXCEPT !.lastToolArgs = p.lastArgs]
    ELSE writeToolUseBlock(flushAllTextBuf([x EXCEPT !.lastToolArgs = p.lastArgs], c), p)

\* the body of the case after claudeToolUseStreamPayloadFromCall returned p
emitToolUse(x, c, p) ==
    IF ~p.ok THEN [x EXCEPT !.lastToolArgs = p.lastArgs]
    ELSE writeToolUseBlock(
             closeTextBlock(flushAllTextBuf([x EXCEPT !.lastToolArgs = p.lastArgs], c)), p)

\* one iteration of the select loop of flushToolCalls for a received call
flushOneToolCall(x, c, call) ==
    IF x.stopTriggered THEN x
    ELSE IF c.disableParallelToolUse /\ x.hasToolUse THEN x
    ELSE emitToolUse(x, c, claudeToolUseStreamPayloadFromCall(call, x.lastToolArgs))

\* flushToolCalls: drain every notification now in the channel
RECURSIVE flushToolCalls(_, _, _)
flushToolCalls(x, c, chan) ==
    IF chan = <<>> THEN x
    ELSE flushToolCalls(flushOneToolCall(x, c, Head(chan)), c, Tail(chan))

estimateClaudeTokensFromChars(totalChars) ==
    IF (totalChars \div 4) + (IF totalChars % 4 # 0 THEN 1 ELSE 0) <= 0 THEN 1
    ELSE (totalChars \div 4) + (IF totalChars % 4 # 0 THEN 1 ELSE 0)

\* variant: no fallback block
emptyBlockFallback_Mut(x) == x

\* the fallback block written when no content block was emitted
emptyBlockFallback(x) ==
    IF ~x.emittedContentBlock
    THEN [x EXCEPT !.out = @ \o
              << Event("content_block_start", x.blockIndex, "text", <<>>),
                 Event("content_block_stop", x.blockIndex, "", <<>>) >>]
    ELSE x

\* selectStopReason in which a recorded text-side reason wins over tool_use
selectStopReason_Mut(x) ==
    IF x.stopReason # "" THEN x
    ELSE IF x.hasToolUse
    THEN [x EXCEPT !.stopReason = "tool_use", !.stopSequence = <<>>]
    ELSE [x EXCEPT !.stopReason = "end_turn"]

\* stop reason selection
selectStopReason(x) ==
    IF x.hasToolUse
    THEN [x EXCEPT !.stopReason = "tool_use", !.stopSequence = <<>>]
    ELSE IF x.stopReason = ""
    THEN [x EXCEPT !.stopReason = "end_turn"]
    ELSE x

writeTerminalEvents(x) ==
    [x EXCEPT !.out = @ \o
        << [ev |-> "message_delta", index |-> estimateClaudeTokensFromChars(x.outputChars),
            btype |-> x.stopReason, text |-> x.stopSequence],
           Event("message_stop", 0, "", <<>>) >>]

\* variant: the open text block is not closed after the loop
finishStream_Mut(x, c) ==
    writeTerminalEvents(selectStopReason(emptyBlockFallback(flushAllTextBuf(x, c))))

\* the statements after the receive loop
finishStream(x, c) ==
    writeTerminalEvents(selectStopReason(emptyBlockFallback(
        closeTextBlock(flushAllTextBuf(x, c)))))

EmptyMap == [k \in {} |-> <<>>]

\* the locals of writeMessagesStream once message_start is written
newStreamTranslator ==
    [pc |-> "flush",
     blockIndex |-> 0,
     textBlockOpen |-> FALSE,
     textBlockIndex |-> 0,
     lastToolArgs |-> EmptyMap,
     hasToolUse |-> FALSE,
     emittedContentBlock |-> FALSE,
     stopReason |-> "",
     stopSequence |-> <<>>,
     stopTriggered |-> FALSE,
     outputChars |-> 0,
     textBuf |-> <<>>,
     out |-> << Event("message_start", 0, "", <<>>) >>,
     cancelled |-> FALSE,
     trig |-> <<>>]

InitStream ==
    /\ cfg \in [stopSequences : StopSequenceChoices,
                maxTokens : MaxTokensChoices,
                disableParallelToolUse : BOOLEAN]
    /\ tr = newStreamTranslator
    /\ srPipe = <<>>
    /\ srClosed = ""
    /\ toolCallChan = <<>>
    /\ sentText = <<>>
    /\ sentCalls = 0
    /\ rq = Idle
    /\ rd = Idle
    /\ ct = Idle
    /\ up = Idle

\* ChatModel.Stream: the sink sends one message per non-empty increment
WorkerSendText(delta) ==
    /\ srClosed = ""
    /\ Len(srPipe) < PipeCap
    /\ tr.pc # "done"
    /\ Len(sentText) + Len(delta) <= MaxTextLen
    /\ srPipe' = Append(srPipe, delta)
    /\ sentText' = sentText \o delta
    /\ UNCHANGED <<cfg, tr, srClosed, toolCallChan, sentCalls>>
    /\ UNCHANGED <<retryVars, readerVars>>

\* the tool-call handler of handleMessages: a non-blocking send
WorkerToolCall(call) ==
    /\ srClosed = ""
    /\ tr.pc # "done"
    /\ sentCalls < MaxToolCalls
    /\ toolCallChan' = IF Len(toolCallChan) < ToolCallChanCap
                       THEN Append(toolCallChan, call)
                       ELSE toolCallChan
    /\ sentCalls' = sentCalls + 1
    /\ UNCHANGED <<cfg, tr, srPipe, srClosed, sentText>>
    /\ UNCHANGED <<retryVars, readerVars>>

\* the worker returns: sw.Send(nil, err) on failure, then sw.Close()
WorkerClose(kind) ==
    /\ srClosed = ""
    /\ tr.pc # "done"
    /\ srClosed' = kind
    /\ UNCHANGED <<cfg, tr, srPipe, toolCallChan, sentText, sentCalls>>
    /\ UNCHANGED <<retryVars, readerVars>>

\* top of the receive loop: flushToolCalls()
FlushToolCalls ==
    /\ tr.pc = "flush"
    /\ tr' = [flushToolCalls(tr, cfg, toolCallChan) EXCEPT !.pc = "recv"]
    /\ toolCallChan' = <<>>
    /\ UNCHANGED <<cfg, srPipe, srClosed, sentText, sentCalls>>
    /\ UNCHANGED <<retryVars, readerVars>>

\* variant: the loop goes on after a stop condition
afterEmit_Mut(y) == [y EXCEPT !.pc = "flush"]

\* the loop breaks when emitTextSafe triggered a stop condition
afterEmit(y) == [y EXCEPT !.pc = IF y.stopTriggered THEN "finish" ELSE "flush"]

\* sr.Recv() returns a message: emitTextSafe(msg.Content)
RecvText ==
    /\ tr.pc = "recv"
    /\ srPipe # <<>>
    /\ tr' = afterEmit(emitTextSafe(tr, cfg, Head(srPipe)))
    /\ srPipe' = Tail(srPipe)
    /\ UNCHANGED <<cfg, srClosed, toolCallChan, sentText, sentCalls>>
    /\ UNCHANGED <<retryVars, readerVars>>

\* sr.Recv() returns an error (io.EOF or the worker's error)
RecvErr ==
    /\ tr.pc = "recv"
    /\ srPipe = <<>>
    /\ srClosed # ""
    /\ tr' = [flushToolCalls(tr, cfg, toolCallChan) EXCEPT !.pc = "finish"]
    /\ toolCallChan' = <<>>
    /\ UNCHANGED <<cfg, srPipe, srClosed, sentText, sentCalls>>
    /\ UNCHANGED <<retryVars, readerVars>>

\* after the loop: flush, close, fallback block, message_delta, message_stop
FinishStream ==
    /\ tr.pc = "finish"
    /\ tr' = [finishStream(tr, cfg) EXCEPT !.pc = "done"]
    /\ UNCHANGED <<cfg, srPipe, srClosed, toolCallChan, sentText, sentCalls>>
    /\ UNCHANGED <<retryVars, readerVars>>

NextStream ==
    \/ \E delta \in Increments : WorkerSendText(delta)
    \/ \E call \in ToolCallChoices : WorkerToolCall(call)
    \/ \E kind \in {"eof", "err"} : WorkerClose(kind)
    \/ FlushToolCalls
    \/ RecvText
    \/ RecvErr
    \/ FinishStream

SpecStream == InitStream /\ [][NextStream]_vars

\* ------------------------------------------------------------------------
\* Properties of the Stream Translator
\* ------------------------------------------------------------------------
RECURSIVE EmittedText(_)
EmittedText(o) ==
    IF o = <<>> THEN <<>>
    ELSE (IF Head(o).btype = "text_delta" THEN Head(o).text ELSE <<>>)
         \o EmittedText(Tail(o))

ToolUseEmitted(o) == \E i \in 1..Len(o) : o[i].btype = "tool_use"

HasStopSequence(text, stopSequences) ==
    \E i \in 1..Len(stopSequences) : Contains(text, stopSequences[i])

MessageDelta(o) == o[Len(o) - 1]

\* C1: the concatenation of all text_delta payloads never contains a
\* configured stop sequence as a substring.
C1_NoStopSequenceInOutput ==
    ~HasStopSequence(EmittedText(tr.out), cfg.stopSequences)

\* C2: with max_tokens = N > 0 the text emitted never exceeds 4*N bytes; when
\* the upstream text is longer than 4*N bytes, holds no stop sequence and no
\* tool_use block was emitted, a finished response has emitted exactly 4*N
\* bytes and its stop reason is max_tokens.
C2_TokenBudget ==
    /\ Len(EmittedText(tr.out)) <= CharsPerToken * cfg.maxTokens
    /\ ( /\ tr.pc = "done"
         /\ Len(sentText) > CharsPerToken * cfg.maxTokens
         /\ ~HasStopSequence(sentText, cfg.stopSequences)
         /\ ~ToolUseEmitted(tr.out) )
       => /\ Len(EmittedText(tr.out)) = CharsPerToken * cfg.maxTokens
          /\ MessageDelta(tr.out).btype = "max_tokens"

C2_Witness ==
    /\ tr.pc = "done"
    /\ Len(cfg.stopSequences) > 0
    /\ Len(SelectSeq(tr.out, LAMBDA e : e.btype = "text_delta")) > 1
    /\ Len(sentText) > CharsPerToken * cfg.maxTokens
    /\ ~HasStopSequence(sentText, cfg.stopSequences)
    /\ ~ToolUseEmitted(tr.out)
    /\ Len(EmittedText(tr.out)) = CharsPerToken * cfg.maxTokens
    /\ MessageDelta(tr.out).btype = "max_tokens"

\* C3: the stop_reason of message_delta is tool_use when a tool_use block was
\* emitted; otherwise the first text-side condition that triggered
\* (stop_sequence or max_tokens); otherwise end_turn.
C3_StopReasonPrecedence ==
    tr.pc = "done" =>
        /\ MessageDelta(tr.out).ev = "message_delta"
        /\ MessageDelta(tr.out).btype =
              IF ToolUseEmitted(tr.out) THEN "tool_use"
              ELSE IF tr.trig # <<>> THEN tr.trig[1]
              ELSE "end_turn"

C3_Witness ==
    /\ tr.pc = "done"
    /\ ToolUseEmitted(tr.out)
    /\ tr.trig # <<>>
    /\ MessageDelta(tr.out).btype = "tool_use"

\* ------------------------------------------------------------------------
\* Request/Retry Orchestrator (backend/chat_model.go, doStreamRequest)
\* ------------------------------------------------------------------------
\* An upstream error text is a sequence of words (maximal runs of token
\* characters); a tool list is a sequence of tool definitions.
StatusBadRequest == 400
StatusOK == 200

ToolTypeCodeInterpreter == "code_interpreter"

LowerWord(w) ==
    CASE w = "Unsupported" -> "unsupported"
      [] w = "CODE_INTERPRETER" -> "code_interpreter"
      [] w = "Code_Interpreter" -> "code_interpreter"
      [] w = "XHigh" -> "xhigh"
      [] OTHER -> w

\* strings.ToLower of a text
LowerText(msg) == [i \in 1..Len(msg) |-> LowerWord(msg[i])]

\* strings.Contains(word, needle) for the words of the model
WordContains(w, needle) ==
    \/ w = needle
    \/ (w = "unsupported_value" /\ needle = "unsupported")

\* strings.Contains(msg, needle) for a one-word needle
ContainsWord(msg, needle) == \E i \in 1..Len(msg) : WordContains(msg[i], needle)

\* containsTokenCaseInsensitive: the token delimited by non-token characters
containsTokenCaseInsensitive(haystack, token) ==
    /\ haystack # <<>>
    /\ token # ""
    /\ \E i \in 1..Len(haystack) : haystack[i] = token

IsUnsupportedToolTypeError(message, toolType) ==
    /\ LowerText(message) # <<>>
    /\ LowerWord(TrimSpaceStr(toolType)) # ""
    /\ Contains(LowerText(message), <<"unsupported", "tool", "type">>)
    /\ ContainsWord(LowerText(message), LowerWord(TrimSpaceStr(toolType)))

IsUnsupportedReasoningEffortError(message, effort) ==
    /\ LowerText(message) # <<>>
    /\ LowerWord(TrimSpaceStr(effort)) # ""
    /\ ContainsWord(LowerText(message), "reasoning.effort")
    /\ ContainsWord(LowerText(message), "unsupported")
    /\ containsTokenCaseInsensitive(LowerText(message), LowerWord(TrimSpaceStr(effort)))

\* variant: the fallback is the effort below high
FallbackReasoningEffort_Mut(effort) ==
    IF LowerWord(TrimSpaceStr(effort)) \in {"xhigh", "x-high"}
    THEN [effort |-> "medium", ok |-> TRUE]
    ELSE [effort |-> "", ok |-> FALSE]

\* result: [effort, ok]
FallbackReasoningEffort(effort) ==
    IF LowerWord(TrimSpaceStr(effort)) \in {"xhigh", "x-high"}
    THEN [effort |-> "high", ok |-> TRUE]
    ELSE [effort |-> "", ok |-> FALSE]

IsToolType(tool, toolType) ==
    LowerWord(TrimSpaceStr(tool.type)) = LowerWord(TrimSpaceStr(toolType))

\* variant: only the first definition of the type is removed
RemoveToolTypeDefinitions_Mut(tools, toolType) ==
    IF \A i \in 1..Len(tools) : ~IsToolType(tools[i], toolType)
    THEN [tools |-> tools, removed |-> FALSE]
    ELSE LET k == CHOOSE i \in 1..Len(tools) :
                      /\ IsToolType(tools[i], toolType)
                      /\ \A j \in 1..(i - 1) : ~IsToolType(tools[j], toolType)
         IN  [tools |-> SubSeq(tools, 1, k - 1) \o SubSeq(tools, k + 1, Len(tools)),
              removed |-> TRUE]

\* result: [tools, removed]
RemoveToolTypeDefinitions(tools, toolType) ==
    IF Len(tools) = 0 \/ LowerWord(TrimSpaceStr(toolType)) = ""
    THEN [tools |-> tools, removed |-> FALSE]
    ELSE IF \A i \in 1..Len(tools) : ~IsToolType(tools[i], toolType)
    THEN [tools |-> tools, removed |-> FALSE]
    ELSE [tools |-> SelectSeq(tools, LAMBDA t : ~IsToolType(t, toolType)),
          removed |-> TRUE]

ToolDef(type, name) == [type |-> type, name |-> name]

\* m.nativeTools followed by m.functionTools, as buildRequestPayload lists them
ToolsChoices ==
    { <<>>,
      << ToolDef("code_interpreter", "") >>,
      << ToolDef("web_search", ""), ToolDef("function", "f") >>,
      << ToolDef("function", "f"), ToolDef("Code_Interpreter", ""), ToolDef("web_search", "") >>,
      << ToolDef("code_interpreter", ""), ToolDef("function", "f"), ToolDef("code_interpreter", "") >> }

\* reasoning effort after NormalizeReasoningEffort; "" is a nil Reasoning
EffortChoices == {"", "high", "xhigh", "x-high", "XHigh"}

ErrorTexts ==
    { <<>>,
      <<"bad", "request">>,
      <<"Unsupported", "tool", "type", "code_interpreter">>,
      <<"unsupported", "tool", "type", "web_search">>,
      <<"unsupported_value", "xhigh", "reasoning.effort">>,
      <<"unsupported_value", "x-high", "reasoning.effort">>,
      <<"unsupported_value", "high", "reasoning.effort">>,
      <<"unsupported", "tool", "type", "code_interpreter", "reasoning.effort", "xhigh">> }

\* what the upstream does with one request: the transport fails, or it
\* answers with a status and an error body, or with an event stream that
\* ends well with some text or carries a response.failed / error event
\* after some text; calls is the number of function calls in the stream
UpstreamResponses ==
    {[kind |-> "transport", status |-> 0, msg |-> m, content |-> <<>>, calls |-> 0] :
        m \in {<<"Unsupported", "tool", "type", "code_interpreter">>}}
    \cup {[kind |-> "http", status |-> st, msg |-> m, content |-> <<>>, calls |-> 0] :
        st \in {StatusBadRequest}, m \in ErrorTexts}
    \cup {[kind |-> "http", status |-> st, msg |-> m, content |-> <<>>, calls |-> 0] :
        st \in {100, 401, 500},
        m \in {<<"Unsupported", "tool", "type", "code_interpreter">>,
               <<"unsupported_value", "xhigh", "reasoning.effort">>}}
    \cup {[kind |-> "stream", status |-> st, msg |-> <<>>, content |-> c, calls |-> n] :
        st \in {StatusOK, 302}, c \in {<<>>, <<"o", "k">>}, n \in {0, 1}}
    \cup {[kind |-> "failed", status |-> StatusOK, msg |-> m, content |-> c, calls |-> n] :
        m \in {<<"Unsupported", "tool", "type", "code_interpreter">>,
               <<"unsupported_value", "xhigh", "reasoning.effort">>},
        c \in {<<>>, <<"o", "k">>}, n \in {0, 1}}

\* the members of the payload other than tools and reasoning
RestChoices ==
    { [model |-> "gpt-5.1", input |-> <<"hi">>, instructions |-> "",
       store |-> FALSE, stream |-> TRUE, temperature |-> "", topP |-> ""],
      [model |-> "gpt-5.3-codex", input |-> <<"hi", "ok">>, instructions |-> "i",
       store |-> FALSE, stream |-> TRUE, temperature |-> "t", topP |-> "p"] }

NoError == [type |-> "", status |-> 0, message |-> <<>>]

\* what readBackendSSE handed to onDelta and to the tool-call handler
Delivered(text, calls) == [text |-> text, calls |-> calls]
NothingDelivered == Delivered(<<>>, 0)

\* variant: an error event of the stream is reported as a status error
doStreamRequestOnce_Mut(resp) ==
    IF resp.kind = "transport"
    THEN [content |-> <<>>, err |-> [type |-> "other", status |-> 0, message |-> resp.msg],
          delivered |-> NothingDelivered]
    ELSE IF resp.status < StatusOK \/ resp.status >= StatusBadRequest
    THEN [content |-> <<>>,
          err |-> [type |-> "status", status |-> resp.status, message |-> resp.msg],
          delivered |-> NothingDelivered]
    ELSE IF resp.kind = "failed"
    THEN [content |-> <<>>,
          err |-> [type |-> "status", status |-> StatusBadRequest, message |-> resp.msg],
          delivered |-> Delivered(resp.content, resp.calls)]
    ELSE [content |-> resp.content, err |-> NoError,
          delivered |-> Delivered(resp.content, resp.calls)]

\* result: [content, err, delivered]; err.type is "status" for a
\* *backendRequestStatusError and "other" for any other error; the stream
\* is read, and its text and calls delivered, only after the status test
doStreamRequestOnce(resp) ==
    IF resp.kind = "transport"
    THEN [content |-> <<>>, err |-> [type |-> "other", status |-> 0, message |-> resp.msg],
          delivered |-> NothingDelivered]
    ELSE IF resp.status < StatusOK \/ resp.status >= StatusBadRequest
    THEN [content |-> <<>>,
          err |-> [type |-> "status", status |-> resp.status, message |-> resp.msg],
          delivered |-> NothingDelivered]
    ELSE IF resp.kind = "failed"
    THEN [content |-> <<>>, err |-> [type |-> "other", status |-> 0, message |-> resp.msg],
          delivered |-> Delivered(resp.content, resp.calls)]
    ELSE [content |-> resp.content, err |-> NoError,
          delivered |-> Delivered(resp.content, resp.calls)]

\* variant: the status code is not looked at
canStripCodeInterpreter_Mut(x, err) ==
    /\ ~x.retriedWithoutCodeInterpreter
    /\ err.type = "status"
    /\ IsUnsupportedToolTypeError(err.message, ToolTypeCodeInterpreter)
    /\ RemoveToolTypeDefinitions(x.tools, ToolTypeCodeInterpreter).removed

\* first repair: strip the code_interpreter tool definitions
canStripCodeInterpreter(x, err) ==
    /\ ~x.retriedWithoutCodeInterpreter
    /\ err.type = "status"
    /\ err.status = StatusBadRequest
    /\ IsUnsupportedToolTypeError(err.message, ToolTypeCodeInterpreter)
    /\ RemoveToolTypeDefinitions(x.tools, ToolTypeCodeInterpreter).removed

\* variant: the error text is not classified
canDowngradeEffort_Mut(x, err) ==
    /\ ~x.retriedReasoningEffort
    /\ err.type = "status"
    /\ err.status = StatusBadRequest
    /\ x.effort # ""
    /\ FallbackReasoningEffort(TrimSpaceStr(x.effort)).ok

\* second repair: downgrade the reasoning effort
canDowngradeEffort(x, err) ==
    /\ ~x.retriedReasoningEffort
    /\ err.type = "status"
    /\ err.status = StatusBadRequest
    /\ x.effort # ""
    /\ FallbackReasoningEffort(TrimSpaceStr(x.effort)).ok
    /\ IsUnsupportedReasoningEffortError(err.message, TrimSpaceStr(x.effort))

\* the body of the for loop once doStreamRequestOnce returned r
afterAttempt(x, r) ==
    IF r.err = NoError
    THEN [x EXCEPT !.pc = "done", !.result = [ok |-> TRUE, content |-> r.content, err |-> NoError]]
    ELSE IF canStripCodeInterpreter(x, r.err)
    THEN [x EXCEPT !.tools = RemoveToolTypeDefinitions(x.tools, ToolTypeCodeInterpreter).tools,
                   !.retriedWithoutCodeInterpreter = TRUE,
                   !.repairs = Append(@, "strip")]
    ELSE IF canDowngradeEffort(x, r.err)
    THEN [x EXCEPT !.effort = FallbackReasoningEffort(TrimSpaceStr(x.effort)).effort,
                   !.retriedReasoningEffort = TRUE,
                   !.repairs = Append(@, "effort")]
    ELSE [x EXCEPT !.pc = "done", !.result = [ok |-> FALSE, content |-> <<>>, err |-> r.err]]

\* history: the payload sent, the response, and the flags before the attempt
recordAttempt(x, resp) ==
    [x EXCEPT !.requests = Append(@, [tools |-> x.tools, effort |-> x.effort,
                                      rest |-> x.rest,
                                      strip |-> x.retriedWithoutCodeInterpreter,
                                      down |-> x.retriedReasoningEffort]),
              !.responses = Append(@, resp),
              !.delivered = Append(@, doStreamRequestOnce(resp).delivered),
              !.sink = @ \o doStreamRequestOnce(resp).delivered.text,
              !.notified = @ + doStreamRequestOnce(resp).delivered.calls]

InitRetry ==
    /\ cfg = Idle /\ tr = Idle /\ sentText = <<>> /\ sentCalls = 0
    /\ srPipe = <<>> /\ srClosed = "" /\ toolCallChan = <<>>
    /\ rd = Idle /\ ct = Idle /\ up = Idle
    /\ \E tools \in ToolsChoices, effort \in EffortChoices, rest \in RestChoices :
        rq = [pc |-> "attempt",
              tools |-> tools,
              effort |-> effort,
              rest |-> rest,
              retriedWithoutCodeInterpreter |-> FALSE,
              retriedReasoningEffort |-> FALSE,
              result |-> [ok |-> FALSE, content |-> <<>>, err |-> NoError],
              requests |-> <<>>,
              responses |-> <<>>,
              delivered |-> <<>>,
              sink |-> <<>>,
              notified |-> 0,
              repairs |-> <<>>]

\* one iteration of the retry loop
Attempt(resp) ==
    /\ rq.pc = "attempt"
    /\ rq' = afterAttempt(recordAttempt(rq, resp), doStreamRequestOnce(resp))
    /\ UNCHANGED <<pipeVars, streamVars, readerVars>>

NextRetry == \E resp \in UpstreamResponses : Attempt(resp)

\* the loop is sequential code: an attempt that can run does run
SpecRetry == InitRetry /\ [][NextRetry]_vars /\ WF_vars(NextRetry)

\* ------------------------------------------------------------------------
\* Properties of the retry loop
\* ------------------------------------------------------------------------
\* what a response is, seen from the upstream side
IsRejection(resp) == resp.kind = "http" /\ resp.status = StatusBadRequest

ReportsToolUnsupported(resp) ==
    IsRejection(resp) /\ IsUnsupportedToolTypeError(resp.msg, ToolTypeCodeInterpreter)

ReportsEffortUnsupported(resp) ==
    IsRejection(resp) /\ \E e \in EffortChoices : IsUnsupportedReasoningEffortError(resp.msg, e)

IsSuccess(resp) == resp.kind = "stream"

CarriesCodeInterpreter(tools) ==
    \E i \in 1..Len(tools) : IsToolType(tools[i], ToolTypeCodeInterpreter)

Count(seq, v) == Cardinality({i \in 1..Len(seq) : seq[i] = v})

\* attempt k ended the call with the error of its response
ReturnedAsError(k) ==
    /\ k = Len(rq.responses)
    /\ rq.pc = "done"
    /\ ~rq.result.ok
    /\ rq.result.err = doStreamRequestOnce(rq.responses[k]).err
    /\ rq.result.err # NoError

RepairsBounded ==
    /\ Count(rq.repairs, "strip") <= 1
    /\ Count(rq.repairs, "effort") <= 1
    /\ Len(rq.requests) <= 3
    /\ Len(rq.requests) = Len(rq.repairs) + (IF rq.pc = "done" THEN 1 ELSE 0)
           \/ rq.requests = <<>>

AllClassesRepaired(k) ==
    /\ ReportsToolUnsupported(rq.responses[k]) \/ ReportsEffortUnsupported(rq.responses[k])
    /\ ReportsToolUnsupported(rq.responses[k]) => rq.requests[k].strip
    /\ ReportsEffortUnsupported(rq.responses[k]) => rq.requests[k].down

FirstRejectsCodeInterpreter ==
    /\ Len(rq.responses) >= 1
    /\ ReportsToolUnsupported(rq.responses[1])
    /\ CarriesCodeInterpreter(rq.requests[1].tools)

SecondWithoutCodeInterpreter ==
    Len(rq.requests) >= 2 =>
        /\ ~CarriesCodeInterpreter(rq.requests[2].tools)
        /\ rq.requests[2].tools =
               SelectSeq(rq.requests[1].tools,
                         LAMBDA t : ~IsToolType(t, ToolTypeCodeInterpreter))
        /\ rq.requests[2].effort = rq.requests[1].effort

SecondSuccessReturned ==
    (Len(rq.responses) >= 2 /\ IsSuccess(rq.responses[2])) =>
        /\ rq.pc = "done"
        /\ Len(rq.requests) = 2
        /\ rq.result = [ok |-> TRUE, content |-> rq.responses[2].content, err |-> NoError]

\* C5 as stated: after a first 400 reporting code_interpreter as unsupported
\* for a request that carries the tool, exactly two requests are made.
C5_Original ==
    FirstRejectsCodeInterpreter =>
        /\ Len(rq.requests) <= 2
        /\ rq.pc = "done" => Len(rq.requests) = 2
        /\ SecondWithoutCodeInterpreter
        /\ SecondSuccessReturned

\* C5 (amended): when the first response is a 400 reporting tool type
\* code_interpreter as unsupported and the request carries such a tool, a
\* second request is made that carries no code_interpreter tool; when the
\* second succeeds exactly two requests are made and its text is returned
\* with no error.
C5_StripThenRetry ==
    FirstRejectsCodeInterpreter =>
        /\ rq.pc = "done" => Len(rq.requests) >= 2
        /\ SecondWithoutCodeInterpreter
        /\ SecondSuccessReturned

C5_Witness ==
    /\ FirstRejectsCodeInterpreter
    /\ Len(rq.requests[1].tools) = 3
    /\ rq.pc = "done"
    /\ Len(rq.requests) = 2
    /\ rq.result.ok
    /\ rq.result.content = <<"o", "k">>

\* a failure other than a 400 classified as unsupported capability or effort
Unretryable(resp) ==
    /\ ~IsSuccess(resp)
    /\ ~ReportsToolUnsupported(resp)
    /\ ~ReportsEffortUnsupported(resp)

\* C6: an attempt that failed with anything but a 400 classified as
\* unsupported capability or unsupported effort is the last request of the
\* call, and its error is returned to the caller.
C6_OnlyClassifiedRejectionsRetried ==
    \A k \in 1..Len(rq.responses) :
        Unretryable(rq.responses[k]) => ReturnedAsError(k)

\* an in-band failure whose text looks like a capability rejection, for a
\* request that carries the tool, is returned after one request
C6_Witness ==
    /\ rq.pc = "done"
    /\ Len(rq.requests) = 1
    /\ rq.responses[1].kind = "failed"
    /\ IsUnsupportedToolTypeError(rq.responses[1].msg, ToolTypeCodeInterpreter)
    /\ CarriesCodeInterpreter(rq.requests[1].tools)
    /\ ReturnedAsError(1)

\* ------------------------------------------------------------------------
\* Upstream events (backend/chat_model.go)
\* ------------------------------------------------------------------------
\* A decoded JSON object is a function from member names to values, and a
\* value carries its JSON kind.  Identifiers, names, types and statuses are
\* atoms; texts and argument strings are sequences.
JString(s) == [k |-> "string", s |-> s]
JObject(o) == [k |-> "object", o |-> o]
JArray(a) == [k |-> "array", a |-> a]
JNull == [k |-> "null"]

\* _, ok := m[name].(string)
IsString(m, name) == name \in DOMAIN m /\ m[name].k = "string"

\* v, _ := m[name].(string) for an identifier and for a text
StringOf(m, name) == IF IsString(m, name) THEN m[name].s ELSE ""
TextOf(m, name) == IF IsString(m, name) THEN m[name].s ELSE <<>>

IsObject(m, name) == name \in DOMAIN m /\ m[name].k = "object"
IsArray(m, name) == name \in DOMAIN m /\ m[name].k = "array"

extractDeltaText(raw) ==
    IF "delta" \notin DOMAIN raw \/ raw["delta"].k = "null"
    THEN TextOf(raw, "text")
    ELSE IF raw["delta"].k = "string" THEN raw["delta"].s
    ELSE IF raw["delta"].k = "object" THEN TextOf(raw["delta"].o, "text")
    ELSE <<>>

outputTextOfPart(part) ==
    IF part.k # "object" THEN <<>>
    ELSE IF StringOf(part.o, "type") # "output_text" THEN <<>>
    ELSE TextOf(part.o, "text")

extractOutputTextFromContent(content) ==
    Concat([i \in 1..Len(content) |-> outputTextOfPart(content[i])])

contentTextOfItem(item) ==
    IF item.k # "object" THEN <<>>
    ELSE IF ~IsArray(item.o, "content") THEN <<>>
    ELSE extractOutputTextFromContent(item.o["content"].a)

extractResponseText(raw) ==
    IF ~IsObject(raw, "response") THEN <<>>
    ELSE IF ~IsArray(raw["response"].o, "output") THEN <<>>
    ELSE Concat([i \in 1..Len(raw["response"].o["output"].a) |->
                    contentTextOfItem(raw["response"].o["output"].a[i])])

extractOutputItemText(raw) ==
    IF ~IsObject(raw, "item") THEN <<>>
    ELSE IF StringOf(raw["item"].o, "type") # "message" THEN <<>>
    ELSE IF ~IsArray(raw["item"].o, "content") THEN <<>>
    ELSE extractOutputTextFromContent(raw["item"].o["content"].a)

extractContentPartText(raw) ==
    IF ~IsObject(raw, "part") THEN <<>>
    ELSE IF StringOf(raw["part"].o, "type") # "output_text" THEN <<>>
    ELSE IF IsString(raw["part"].o, "text") THEN raw["part"].o["text"].s
    ELSE TextOf(raw["part"].o, "delta")

\* variant: the top-level message is preferred to error.message
resolveErrorMessage_Mut(raw) ==
    IF IsString(raw, "message") THEN raw["message"].s
    ELSE IF IsObject(raw, "error") /\ IsString(raw["error"].o, "message")
    THEN raw["error"].o["message"].s
    ELSE <<>>

resolveErrorMessage(raw) ==
    IF IsObject(raw, "error") /\ IsString(raw["error"].o, "message")
    THEN raw["error"].o["message"].s
    ELSE TextOf(raw, "message")

\* ------------------------------------------------------------------------
\* Tool-call reconstruction (backend/chat_model.go)
\* ------------------------------------------------------------------------
ToolCall(id, name, args, status) ==
    [id |-> id, name |-> name, args |-> args, status |-> status]

FormatNativeToolName(name) ==
    CASE TrimSpaceStr(name) = "" -> "native"
      [] TrimSpaceStr(name) = "web_search" -> "native.web_search"
      [] TrimSpaceStr(name) = "python_runner" -> "native.python_runner"
      [] OTHER -> TrimSpaceStr(name)

toolNameFromItemType(itemType) ==
    CASE itemType = "web_search_call" -> FormatNativeToolName("web_search")
      [] itemType = "code_interpreter_call" -> FormatNativeToolName("python_runner")
      [] OTHER -> ""

toolStatusFromEvent(eventType) ==
    CASE eventType \in {"response.output_item.added",
                        "response.web_search_call.in_progress",
                        "response.code_interpreter_call.in_progress"} -> "in_progress"
      [] eventType = "response.web_search_call.searching" -> "searching"
      [] eventType \in {"response.output_item.done",
                        "response.web_search_call.completed",
                        "response.code_interpreter_call.completed"} -> "completed"
      [] OTHER -> ""

toolStatusFromItem(eventType, item) ==
    IF IsString(item, "status") /\ ToLowerStr(TrimSpaceStr(item["status"].s)) # ""
    THEN ToLowerStr(TrimSpaceStr(item["status"].s))
    ELSE toolStatusFromEvent(eventType)

\* json.Marshal of a decoded value that is not a string
marshalValue(v) ==
    IF v.k = "object"
    THEN <<"{">> \o SelectSeq(KeyOrder, LAMBDA key : key \in DOMAIN v.o) \o <<"}">>
    ELSE IF v.k = "null" THEN <<"n", "u", "l", "l">>
    ELSE <<"1">>

argumentsOfItem(item) ==
    IF "arguments" \notin DOMAIN item THEN <<>>
    ELSE IF item["arguments"].k = "string" THEN item["arguments"].s
    ELSE marshalValue(item["arguments"])

callIDOfItem(item) ==
    IF StringOf(item, "call_id") # "" THEN StringOf(item, "call_id")
    ELSE StringOf(item, "id")

actionOfItem(item) ==
    IF IsObject(item, "action") /\ DOMAIN item["action"].o # {}
    THEN marshalValue(item["action"])
    ELSE <<>>

\* the call of an item, as a sequence of zero or one records
toolCallFromItem(eventType, item) ==
    IF StringOf(item, "type") = "function_call"
    THEN IF TrimSpaceStr(StringOf(item, "name")) = "" \/ callIDOfItem(item) = ""
         THEN <<>>
         ELSE << ToolCall(callIDOfItem(item), TrimSpaceStr(StringOf(item, "name")),
                          argumentsOfItem(item), toolStatusFromItem(eventType, item)) >>
    ELSE IF toolNameFromItemType(StringOf(item, "type")) = "" \/ StringOf(item, "id") = ""
    THEN <<>>
    ELSE << ToolCall(StringOf(item, "id"), toolNameFromItemType(StringOf(item, "type")),
                     actionOfItem(item), toolStatusFromItem(eventType, item)) >>

toolCallFromItemID(eventType, itemID, itemType) ==
    IF itemID = "" \/ toolNameFromItemType(itemType) = "" THEN <<>>
    ELSE << ToolCall(itemID, toolNameFromItemType(itemType), <<>>,
                     toolStatusFromEvent(eventType)) >>

\* functionCallState: itemMeta and args are maps keyed by item id
newFunctionCallState == [itemMeta |-> EmptyMap, args |-> EmptyMap]

MapGet(m, key, zero) == IF key \in DOMAIN m THEN m[key] ELSE zero

Extracted(calls, fc) == [calls |-> calls, fc |-> fc]

recordItemMeta(itemMeta, itemID, call) ==
    IF TrimSpaceStr(call.id) # "" /\ TrimSpaceStr(call.name) # ""
    THEN MapPut(itemMeta, itemID,
                [CallID |-> TrimSpaceStr(call.id), Name |-> TrimSpaceStr(call.name)])
    ELSE itemMeta

\* toolCallsFromItem for a function_call item with a non-empty id
functionCallFromItem(itemID, call, fc) ==
    IF TrimSpace(call.args) # <<>>
    THEN Extracted(<<call>>,
                   [itemMeta |-> recordItemMeta(fc.itemMeta, itemID, call),
                    args |-> MapPut(fc.args, itemID, TrimSpace(call.args))])
    ELSE IF TrimSpace(MapGet(fc.args, itemID, <<>>)) # <<>>
    THEN Extracted(<< [call EXCEPT !.args = TrimSpace(MapGet(fc.args, itemID, <<>>))] >>,
                   [fc EXCEPT !.itemMeta = recordItemMeta(fc.itemMeta, itemID, call)])
    ELSE Extracted(<<call>>,
                   [fc EXCEPT !.itemMeta = recordItemMeta(fc.itemMeta, itemID, call)])

toolCallsFromItem(eventType, item, fc) ==
    IF toolCallFromItem(eventType, item) = <<>> THEN Extracted(<<>>, fc)
    ELSE IF StringOf(item, "type") = "function_call" /\ StringOf(item, "id") # ""
    THEN functionCallFromItem(StringOf(item, "id"), toolCallFromItem(eventType, item)[1], fc)
    ELSE Extracted(toolCallFromItem(eventType, item), fc)

RECURSIVE toolCallsFromOutput(_, _, _)

\* variant: only the first entry of output is looked at
toolCallsFromResponseCompleted_Mut(raw, fc) ==
    IF ~IsObject(raw, "response") THEN Extracted(<<>>, fc)
    ELSE IF ~IsArray(raw["response"].o, "output") THEN Extracted(<<>>, fc)
    ELSE toolCallsFromOutput(Take(raw["response"].o["output"].a, 2), 1, Extracted(<<>>, fc))

\* the loop of toolCallsFromResponseCompleted over output[i..]
toolCallsFromOutput(output, i, acc) ==
    IF i > Len(output) THEN acc
    ELSE IF output[i].k # "object" THEN toolCallsFromOutput(output, i + 1, acc)
    ELSE toolCallsFromOutput(output, i + 1,
             Extracted(acc.calls \o toolCallsFromItem("response.output_item.done",
                                                      output[i].o, acc.fc).calls,
                       toolCallsFromItem("response.output_item.done",
                                         output[i].o, acc.fc).fc))

toolCallsFromResponseCompleted(raw, fc) ==
    IF ~IsObject(raw, "response") THEN Extracted(<<>>, fc)
    ELSE IF ~IsArray(raw["response"].o, "output") THEN Extracted(<<>>, fc)
    ELSE toolCallsFromOutput(raw["response"].o["output"].a, 1, Extracted(<<>>, fc))

argumentsDeltaOf(raw) ==
    IF IsString(raw, "delta") THEN raw["delta"].s ELSE TextOf(raw, "arguments_delta")

applyFunctionCallArgumentsDelta(raw, fc) ==
    IF TrimSpaceStr(StringOf(raw, "item_id")) = "" \/ argumentsDeltaOf(raw) = <<>>
    THEN fc
    ELSE [fc EXCEPT !.args =
             MapPut(fc.args, TrimSpaceStr(StringOf(raw, "item_id")),
                    MapGet(fc.args, TrimSpaceStr(StringOf(raw, "item_id")), <<>>)
                        \o argumentsDeltaOf(raw))]

\* variant: the accumulated buffer is ignored
finalArguments_Mut(raw, itemID, fc) == TrimSpace(TextOf(raw, "arguments"))

\* the arguments an arguments-done event finalizes for item itemID
finalArguments(raw, itemID, fc) ==
    IF TrimSpace(TextOf(raw, "arguments")) # <<>>
    THEN TrimSpace(TextOf(raw, "arguments"))
    ELSE TrimSpace(MapGet(fc.args, itemID, <<>>))

doneCallID(meta, itemID) ==
    IF TrimSpaceStr(meta.CallID) = "" THEN itemID ELSE TrimSpaceStr(meta.CallID)

functionCallDone(itemID, arguments, fc) ==
    Extracted(
        IF itemID \notin DOMAIN fc.itemMeta THEN <<>>
        ELSE IF TrimSpaceStr(fc.itemMeta[itemID].Name) = "" THEN <<>>
        ELSE << ToolCall(doneCallID(fc.itemMeta[itemID], itemID),
                         TrimSpaceStr(fc.itemMeta[itemID].Name), arguments, "completed") >>,
        IF arguments # <<>>
        THEN [fc EXCEPT !.args = MapPut(fc.args, itemID, arguments)]
        ELSE fc)

toolCallFromFunctionCallArgumentsDone(raw, fc) ==
    IF TrimSpaceStr(StringOf(raw, "item_id")) = "" THEN Extracted(<<>>, fc)
    ELSE functionCallDone(TrimSpaceStr(StringOf(raw, "item_id")),
                          finalArguments(raw, TrimSpaceStr(StringOf(raw, "item_id")), fc),
                          fc)

extractToolCalls(eventType, raw, fc) ==
    CASE eventType \in {"response.output_item.added", "response.output_item.done"} ->
             IF IsObject(raw, "item")
             THEN toolCallsFromItem(eventType, raw["item"].o, fc)
             ELSE Extracted(<<>>, fc)
      [] eventType = "response.completed" -> toolCallsFromResponseCompleted(raw, fc)
      [] eventType = "response.function_call_arguments.delta" ->
             Extracted(<<>>, applyFunctionCallArgumentsDelta(raw, fc))
      [] eventType = "response.function_call_arguments.done" ->
             toolCallFromFunctionCallArgumentsDone(raw, fc)
      [] eventType \in {"response.web_search_call.in_progress",
                        "response.web_search_call.searching",
                        "response.web_search_call.completed"} ->
             Extracted(toolCallFromItemID(eventType, StringOf(raw, "item_id"),
                                          "web_search_call"), fc)
      [] eventType \in {"response.code_interpreter_call.in_progress",
                        "response.code_interpreter_call.completed"} ->
             Extracted(toolCallFromItemID(eventType, StringOf(raw, "item_id"),
                                          "code_interpreter_call"), fc)
      [] OTHER -> Extracted(<<>>, fc)

\* ------------------------------------------------------------------------
\* Event Interpreter (backend/chat_model.go, handleBackendEvent)
\* ------------------------------------------------------------------------
\* A line of the upstream body is a sequence of tokens; a token is the field
\* name "data:", a blank, a carriage return, the sentinel, a whole JSON
\* document, one half of a document split in two, or other text.
Tok(t) == [t |-> t]
Whole(doc) == [t |-> "json", doc |-> doc]
Half(doc, n) == [t |-> "half", doc |-> doc, n |-> n]

SP == Tok("sp")
CR == Tok("cr")
LF == Tok("lf")
DataField == Tok("data:")
DoneSentinel == Tok("[DONE]")

RECURSIVE TrimLeftIn(_, _)
TrimLeftIn(s, cutset) ==
    IF s # <<>> /\ Head(s).t \in cutset THEN TrimLeftIn(Tail(s), cutset) ELSE s

RECURSIVE TrimRightIn(_, _)
TrimRightIn(s, cutset) ==
    IF s # <<>> /\ s[Len(s)].t \in cutset
    THEN TrimRightIn(Take(s, Len(s) - 1), cutset)
    ELSE s

\* strings.TrimRight(line, "\r\n") and strings.TrimSpace on token sequences
TrimRightCRLF(line) == TrimRightIn(line, {"cr", "lf"})
TrimSpaceTokens(s) == TrimRightIn(TrimLeftIn(s, {"sp", "cr", "lf"}), {"sp", "cr", "lf"})

\* strings.Join(dataLines, "\n")
RECURSIVE JoinLines(_)
JoinLines(lines) ==
    IF lines = <<>> THEN <<>>
    ELSE IF Len(lines) = 1 THEN lines[1]
    ELSE lines[1] \o <<LF>> \o JoinLines(Tail(lines))

\* json.Unmarshal(payload, &raw): a whole document, or its two halves on
\* consecutive data lines, decode; anything else does not
Unmarshal(payload) ==
    IF Len(payload) = 1 /\ payload[1].t = "json"
    THEN <<payload[1].doc>>
    ELSE IF /\ Len(payload) = 3
            /\ payload[1].t = "half" /\ payload[2].t = "lf" /\ payload[3].t = "half"
            /\ payload[1].n = 1 /\ payload[3].n = 2
            /\ payload[1].doc = payload[3].doc
    THEN <<payload[1].doc>>
    ELSE <<>>

NoErr == [kind |-> "none", message |-> <<>>]
errStreamDone == [kind |-> "done", message |-> <<>>]
BackendError(message) ==
    [kind |-> "backend",
     message |-> IF message = <<>> THEN <<"u", "n", "k">> ELSE message]

\* variant: a delta is dropped once one was seen
appendDelta_Mut(st, delta) ==
    IF delta = <<>> \/ st.hasDelta THEN st
    ELSE [st EXCEPT !.hasDelta = TRUE,
                    !.fullContent = @ \o delta,
                    !.delta = delta]

\* appendDelta: st.delta is what onDelta receives
appendDelta(st, delta) ==
    IF delta = <<>> THEN st
    ELSE [st EXCEPT !.hasDelta = TRUE,
                    !.fullContent = @ \o delta,
                    !.delta = delta]

orResponseText(text, raw) == IF text = <<>> THEN extractResponseText(raw) ELSE text

\* the switch on eventType; st.hasDelta is *hasDelta on entry
dispatchEvent(eventType, raw, st) ==
    CASE eventType = "response.output_text.delta" ->
             appendDelta(st, extractDeltaText(raw))
      [] eventType = "response.output_text.done" ->
             IF st.hasDelta THEN st
             ELSE appendDelta(st, orResponseText(extractDeltaText(raw), raw))
      [] eventType = "response.content_part.added" ->
             appendDelta(st, extractContentPartText(raw))
      [] eventType = "response.content_part.done" ->
             IF st.hasDelta THEN st
             ELSE appendDelta(st, orResponseText(extractContentPartText(raw), raw))
      [] eventType = "response.output_item.done" ->
             IF st.hasDelta THEN st
             ELSE appendDelta(st, extractOutputItemText(raw))
      [] eventType = "response.completed" ->
             IF st.hasDelta THEN [st EXCEPT !.err = errStreamDone]
             ELSE [appendDelta(st, extractResponseText(raw)) EXCEPT !.err = errStreamDone]
      [] eventType = "response.created" ->
             IF st.hasDelta THEN st
             ELSE appendDelta(st, extractResponseText(raw))
      [] eventType \in {"response.failed", "error"} ->
             [st EXCEPT !.err = BackendError(resolveErrorMessage(raw))]
      [] OTHER -> st

withToolCalls(st, raw, extracted) ==
    [st EXCEPT !.raw = <<raw>>, !.calls = extracted.calls, !.functionCalls = extracted.fc]

decodedEvent(raw, st) ==
    dispatchEvent(StringOf(raw, "type"), raw,
                  withToolCalls(st, raw,
                                extractToolCalls(StringOf(raw, "type"), raw, st.functionCalls)))

\* st: fullContent, hasDelta, functionCalls, and the outputs of the call:
\* raw (the decoded event), calls (passed to onToolCall), delta (passed to
\* onDelta) and err
\* variant: a payload that does not decode ends the stream with an error
handleBackendEvent_Mut(payload, st) ==
    IF Unmarshal(payload) = <<>> THEN [st EXCEPT !.err = BackendError(<<>>)]
    ELSE decodedEvent(Unmarshal(payload)[1], st)

handleBackendEvent(payload, st) ==
    IF Unmarshal(payload) = <<>> THEN st
    ELSE decodedEvent(Unmarshal(payload)[1], st)

\* ------------------------------------------------------------------------
\* What the upstream writes
\* ------------------------------------------------------------------------
TextDelta(d) ==
    [type |-> JString("response.output_text.delta"), delta |-> JString(d)]
TextDeltaObject(d) ==
    [type |-> JString("response.output_text.delta"),
     delta |-> JObject([text |-> JString(d)])]
TextDeltaFlat(d) ==
    [type |-> JString("response.output_text.delta"), text |-> JString(d)]
TextDone(t) ==
    [type |-> JString("response.output_text.done"), text |-> JString(t)]
OutputTextPart(t) == JObject([type |-> JString("output_text"), text |-> JString(t)])
ContentPart(type, t) == [type |-> JString(type), part |-> OutputTextPart(t)]
MessageItem(t) ==
    JObject([type |-> JString("message"), content |-> JArray(<<OutputTextPart(t)>>)])
FunctionCallItem(id, callID, name, args) ==
    JObject([type |-> JString("function_call"), id |-> JString(id),
             call_id |-> JString(callID), name |-> JString(name),
             arguments |-> JString(args)])
OutputItem(type, item) == [type |-> JString(type), item |-> item]
ResponseEvent(type, output) ==
    [type |-> JString(type), response |-> JObject([output |-> JArray(output)])]
ArgumentsDelta(itemID, fragment) ==
    [type |-> JString("response.function_call_arguments.delta"),
     item_id |-> JString(itemID), delta |-> JString(fragment)]
ArgumentsDeltaAlt(itemID, fragment) ==
    [type |-> JString("response.function_call_arguments.delta"),
     item_id |-> JString(itemID), arguments_delta |-> JString(fragment)]
ArgumentsDone(itemID) ==
    [type |-> JString("response.function_call_arguments.done"),
     item_id |-> JString(itemID)]
ArgumentsDoneWith(itemID, args) ==
    [type |-> JString("response.function_call_arguments.done"),
     item_id |-> JString(itemID), arguments |-> JString(args)]
ResponseFailed(message) ==
    [type |-> JString("response.failed"),
     error |-> JObject([message |-> JString(message)])]
\* an error event with a nested and a top-level message
ErrorEvent(nested, top) ==
    [type |-> JString("error"),
     error |-> JObject([message |-> JString(nested)]),
     message |-> JString(top)]
\* error events with a top-level message only, and with none
ErrorTopLevel(top) == [type |-> JString("error"), message |-> JString(top)]
ErrorBare == [type |-> JString("error"), error |-> JString(<<"n", "o">>)]

DataLine(doc) == <<DataField, SP, Whole(doc)>>
BlankLine == <<>>
DoneLine == <<DataField, SP, DoneSentinel>>

\* one write of the upstream: the lines it adds to the body, and what it
\* means by them: the text increment it sends (empty when none), or for the
\* function call of an item whether it announces the call with its id and
\* name, the fragment of the arguments it sends, and whether it carries or
\* closes the arguments
Write(lines, delta) ==
    [lines |-> lines, delta |-> delta, item |-> "", announce |-> FALSE,
     fragment |-> <<>>, final |-> FALSE]
Frame(doc) == Write(<<DataLine(doc), BlankLine>>, <<>>)
CallFrame(doc, item, announce, fragment, final) ==
    [lines |-> <<DataLine(doc), BlankLine>>, delta |-> <<>>, item |-> item,
     announce |-> announce, fragment |-> fragment, final |-> final]

\* a well-formed stream of text increments in their three encodings
DeltaWrites ==
    { Write(<<DataLine(TextDelta(<<"h">>)), BlankLine>>, <<"h">>),
      Write(<<DataLine(TextDelta(<<"l", "o">>)), BlankLine>>, <<"l", "o">>),
      Write(<<<<DataField, Whole(TextDeltaObject(<<"i">>)), CR>>, <<CR>>>>, <<"i">>),
      Write(<<DataLine(TextDeltaFlat(<<"j">>)), BlankLine>>, <<"j">>),
      Write(<<DataLine(TextDelta(<<>>)), BlankLine>>, <<>>),
      Write(<<DoneLine>>, <<>>) }

\* increments mixed with the events that carry a snapshot of the text
SnapshotWrites ==
    { Frame(TextDelta(<<"h">>)),
      Frame(TextDone(<<"h">>)),
      Frame(ContentPart("response.content_part.added", <<"h">>)),
      Frame(ContentPart("response.content_part.done", <<"h">>)),
      Frame(OutputItem("response.output_item.done", MessageItem(<<"h">>))),
      Frame(ResponseEvent("response.created", <<MessageItem(<<"h">>)>>)),
      Frame(ResponseEvent("response.completed", <<MessageItem(<<"h">>)>>)),
      Frame(ResponseFailed(<<"n", "o">>)) }

\* every shape of line the reader tells apart
FramingWrites ==
    { Write(<<BlankLine>>, <<>>),
      Write(<<DataLine(TextDelta(<<"h">>))>>, <<>>),
      Write(<<<<DataField, SP, Half(TextDelta(<<"i">>), 1)>>>>, <<>>),
      Write(<<<<DataField, Half(TextDelta(<<"i">>), 2), SP, CR>>>>, <<>>),
      Write(<<DoneLine>>, <<>>),
      Write(<<<<DataField, DoneSentinel, SP, CR>>>>, <<>>),
      Write(<<<<DataField, SP>>>>, <<>>),
      Write(<<<<Tok("event:"), SP, Tok("ping")>>>>, <<>>) }

\* function calls announced, streamed in fragments and finalized
ToolWrites ==
    { CallFrame(OutputItem("response.output_item.added",
                           FunctionCallItem("i1", "c1", "f", <<>>)),
                "i1", TRUE, <<>>, FALSE),
      CallFrame(OutputItem("response.output_item.done",
                           FunctionCallItem("i1", "c1", "f", <<"{", "d", "}">>)),
                "i1", TRUE, <<>>, TRUE),
      CallFrame(ArgumentsDelta("i1", <<"{", "a">>), "i1", FALSE, <<"{", "a">>, FALSE),
      CallFrame(ArgumentsDeltaAlt(" i1 ", <<"b", "}", " ">>),
                "i1", FALSE, <<"b", "}", " ">>, FALSE),
      CallFrame(ArgumentsDone("i1"), "i1", FALSE, <<>>, TRUE),
      CallFrame(ArgumentsDoneWith("i1", <<" ", "{", "p", "}">>), "i1", FALSE, <<>>, TRUE),
      CallFrame(ArgumentsDone("i2"), "i2", FALSE, <<>>, TRUE),
      Write(<<DoneLine>>, <<>>) }

\* one function call reported again and again, its arguments spelled with
\* another key order, with blanks, or changed
RepeatWrites ==
    { CallFrame(OutputItem("response.output_item.done",
                           FunctionCallItem("i1", "c1", "f", <<"{", "a", "b", "}">>)),
                "i1", TRUE, <<>>, TRUE),
      CallFrame(OutputItem("response.output_item.done",
                           FunctionCallItem("i1", "c1", "f",
                                            <<"{", " ", "b", "a", "}">>)),
                "i1", TRUE, <<>>, TRUE),
      CallFrame(OutputItem("response.output_item.done",
                           FunctionCallItem("i1", "c1", "f", <<"{", "a", "}">>)),
                "i1", TRUE, <<>>, TRUE),
      CallFrame(OutputItem("response.output_item.done",
                           FunctionCallItem("i2", "c2", "Task",
                                            <<"{", "p", " ", "s", " ", "d", "}">>)),
                "i2", TRUE, <<>>, TRUE),
      CallFrame(OutputItem("response.output_item.done",
                           FunctionCallItem("i2", "c2", "Task",
                                            <<"{", "d", "s", "p", "}">>)),
                "i2", TRUE, <<>>, TRUE),
      Write(<<DoneLine>>, <<>>) }

\* more function calls in one frame than the tool-call queue holds
FloodIDs ==
    << "k1", "k2", "k3", "k4", "k5", "k6", "k7", "k8", "k9", "k10", "k11", "k12",
       "k13", "k14", "k15", "k16", "k17" >>
FloodItems ==
    [i \in 1..(ToolCallChanCap + 1) |->
        FunctionCallItem(FloodIDs[i], FloodIDs[i], "f", <<"{", "a", "}">>)]
FloodWrites ==
    { CallFrame(OutputItem("response.output_item.done",
                           FunctionCallItem("i1", "c1", "f", <<"{", "a", "}">>)),
                "i1", TRUE, <<>>, TRUE),
      Frame(TextDelta(<<"h">>)),
      Frame(ResponseEvent("response.completed", FloodItems)) }

\* text increments and function calls in one stream
MixedWrites ==
    { Write(<<DataLine(TextDelta(<<"h">>)), BlankLine>>, <<"h">>),
      Write(<<DataLine(TextDelta(<<"i">>)), BlankLine>>, <<"i">>),
      CallFrame(OutputItem("response.output_item.done",
                           FunctionCallItem("c1", "c1", "f", <<"{", "a", "}">>)),
                "c1", TRUE, <<>>, TRUE),
      CallFrame(OutputItem("response.output_item.done",
                           FunctionCallItem("c2", "c2", "f", <<"{", "b", "}">>)),
                "c2", TRUE, <<>>, TRUE),
      Write(<<DoneLine>>, <<>>) }

\* items and events that carry or imply a status
FunctionCallItemWithStatus(id, callID, name, args, status) ==
    JObject([type |-> JString("function_call"), id |-> JString(id),
             call_id |-> JString(callID), name |-> JString(name),
             arguments |-> JString(args), status |-> JString(status)])
NativeItemWithStatus(type, id, status) ==
    JObject([type |-> JString(type), id |-> JString(id), status |-> JString(status)])
NativeCallEvent(type, itemID) == [type |-> JString(type), item_id |-> JString(itemID)]

StatusWrites ==
    { CallFrame(OutputItem("response.output_item.done",
                           FunctionCallItemWithStatus("i3", "c3", "f", <<"{", "a", "}">>,
                                                      "failed")),
                "i3", TRUE, <<>>, TRUE),
      CallFrame(OutputItem("response.output_item.done",
                           FunctionCallItemWithStatus("i4", "c4", "f", <<"{", "b", "}">>,
                                                      " completed ")),
                "i4", TRUE, <<>>, TRUE),
      CallFrame(OutputItem("response.output_item.added",
                           NativeItemWithStatus("web_search_call", "w1", "In_Progress")),
                "w1", TRUE, <<>>, TRUE),
      CallFrame(NativeCallEvent("response.web_search_call.searching", "w1"),
                "w1", TRUE, <<>>, TRUE),
      Write(<<DoneLine>>, <<>>) }

\* a function call announced and streamed by fragments, then the terminal
\* event whose output lists a message, that call without arguments, a
\* built-in tool call, a second function call, a function call without a
\* name and an entry that is no object
NativeItem(type, id) == JObject([type |-> JString(type), id |-> JString(id)])

CompletedOutput ==
    << MessageItem(<<"h">>),
       FunctionCallItem("i1", "c1", "f", <<>>),
       NativeItem("web_search_call", "w1"),
       FunctionCallItem("i2", "c2", "f", <<"{", "b", "}">>),
       FunctionCallItem("i5", "c5", "", <<"{", "d", "}">>),
       JString("x") >>

CompletedWrites ==
    { CallFrame(OutputItem("response.output_item.added",
                           FunctionCallItem("i1", "c1", "f", <<>>)),
                "i1", TRUE, <<>>, FALSE),
      CallFrame(ArgumentsDelta("i1", <<"{", "a", "}">>), "i1", FALSE, <<"{", "a", "}">>, FALSE),
      Frame(ResponseEvent("response.completed", CompletedOutput)),
      Frame(TextDelta(<<"i">>)) }

\* text, then every shape of failure event
FailureWrites ==
    { Write(<<DataLine(TextDelta(<<"h">>)), BlankLine>>, <<"h">>),
      Frame(ResponseFailed(<<"n", "o">>)),
      Frame(ErrorEvent(<<"n", "o">>, <<"x">>)),
      Frame(ErrorEvent(<<>>, <<"x">>)),
      Frame(ErrorTopLevel(<<"x">>)),
      Frame(ErrorBare),
      Frame([type |-> JString("response.failed")]) }

Feeds ==
    {"deltas", "snapshots", "framing", "tools", "repeats", "flood", "mixed", "statuses",
     "completed", "failures"}

Writes(feed) ==
    CASE feed = "deltas" -> DeltaWrites
      [] feed = "snapshots" -> SnapshotWrites
      [] feed = "framing" -> FramingWrites
      [] feed = "tools" -> ToolWrites
      [] feed = "repeats" -> RepeatWrites
      [] feed = "flood" -> FloodWrites
      [] feed = "mixed" -> MixedWrites
      [] feed = "statuses" -> StatusWrites
      [] feed = "completed" -> CompletedWrites
      [] feed = "failures" -> FailureWrites

\* what may stand after the last newline of the body
LastLines(feed) ==
    IF feed = "framing" THEN {<<>>, DataLine(TextDelta(<<"h">>))} ELSE {<<>>}

\* ------------------------------------------------------------------------
\* Frame Reader (backend/chat_model.go, readBackendSSE)
\* ------------------------------------------------------------------------
\* the locals of readBackendSSE, then what the last iteration read and
\* produced, then the increments delivered to onDelta so far
newReader ==
    [pc |-> "read",
     dataLines |-> <<>>,
     fullContent |-> <<>>,
     hasDelta |-> FALSE,
     functionCalls |-> newFunctionCallState,
     result |-> [content |-> <<>>, err |-> NoErr],
     line |-> <<>>, eof |-> FALSE, payload |-> <<>>, raw |-> <<>>,
     calls |-> <<>>, delta |-> <<>>, err |-> NoErr,
     hadDelta |-> FALSE, prevContent |-> <<>>, prevArgs |-> EmptyMap,
     frames |-> 0,
     sink |-> <<>>]

\* reader.ReadString returned line (eof: with io.EOF)
beginIteration(x, line, eof) ==
    [x EXCEPT !.line = line, !.eof = eof, !.payload = <<>>, !.raw = <<>>,
              !.calls = <<>>, !.delta = <<>>, !.err = NoErr,
              !.hadDelta = x.hasDelta, !.prevContent = x.fullContent,
              !.prevArgs = x.functionCalls.args]

returnContent(x) ==
    [x EXCEPT !.pc = "done", !.result = [content |-> x.fullContent, err |-> NoErr]]

returnError(x) ==
    [x EXCEPT !.pc = "done", !.result = [content |-> <<>>, err |-> x.err]]

\* what follows handleBackendEvent in both places it is called
afterFrame(x, atEOF) ==
    IF x.err.kind = "done" THEN returnContent(x)
    ELSE IF x.err.kind # "none" THEN returnError(x)
    ELSE IF atEOF THEN returnContent(x)
    ELSE [x EXCEPT !.dataLines = <<>>]

flushFrame(x, atEOF) ==
    afterFrame(handleBackendEvent(JoinLines(x.dataLines),
                                  [x EXCEPT !.payload = JoinLines(x.dataLines),
                                            !.frames = @ + 1]),
               atEOF)

\* variant: the sentinel is buffered like any other data line
dataLine_Mut(x, data) ==
    IF data # <<>> THEN [x EXCEPT !.dataLines = Append(@, data)] ELSE x

\* a line that starts with "data:", data its trimmed remainder
dataLine(x, data) ==
    IF data = <<DoneSentinel>> THEN returnContent(x)
    ELSE IF data # <<>> THEN [x EXCEPT !.dataLines = Append(@, data)]
    ELSE x

\* one iteration on a line that ended with a newline, after TrimRight
readLine(x, line) ==
    IF line = <<>>
    THEN IF x.dataLines = <<>> THEN x ELSE flushFrame(x, FALSE)
    ELSE IF Head(line) = DataField
    THEN dataLine(x, TrimSpaceTokens(Tail(line)))
    ELSE x

\* the iteration in which ReadString returns io.EOF: its line is not looked at
readEOF(x) ==
    IF x.dataLines # <<>> THEN flushFrame(x, TRUE) ELSE returnContent(x)

\* the tool-call handler of handleStreamResponse: non-blocking sends
RECURSIVE handleToolCalls(_, _)
handleToolCalls(chan, calls) ==
    IF calls = <<>> THEN chan
    ELSE handleToolCalls(IF Len(chan) < ToolCallChanCap
                         THEN Append(chan, Head(calls))
                         ELSE chan,
                         Tail(calls))

\* how ChatModel.Stream ends: sw.Send(nil, err) on an error, then sw.Close()
closedAs(x) ==
    IF x.pc # "done" THEN ""
    ELSE IF x.result.err.kind = "none" THEN "eof"
    ELSE "err"

\* variant: onDelta gives the increment up when the pipe is full
Publish_Mut(x) ==
    /\ rd' = [x EXCEPT !.sink = IF x.delta # <<>> THEN Append(@, x.delta) ELSE @]
    /\ srPipe' = IF x.delta # <<>> /\ Len(srPipe) < PipeCap
                 THEN Append(srPipe, x.delta) ELSE srPipe
    /\ toolCallChan' = handleToolCalls(toolCallChan, x.calls)
    /\ srClosed' = closedAs(x)

\* the effects of an iteration that left the reader in x: onDelta sends the
\* increment on the pipe (and blocks while it is full), onToolCall queues
\* the calls, and a return closes the pipe
Publish(x) ==
    /\ x.delta # <<>> => Len(srPipe) < PipeCap
    /\ rd' = [x EXCEPT !.sink = IF x.delta # <<>> THEN Append(@, x.delta) ELSE @]
    /\ srPipe' = IF x.delta # <<>> THEN Append(srPipe, x.delta) ELSE srPipe
    /\ toolCallChan' = handleToolCalls(toolCallChan, x.calls)
    /\ srClosed' = closedAs(x)

\* what a frame brings: a text increment, or the function call of an item
Arrival(kind, content, id) == [kind |-> kind, content |-> content, id |-> id]

\* the upstream writes more of the body, once what it wrote was read
UpstreamWrite(w) ==
    /\ rd.pc = "read"
    /\ ~up.closed
    /\ up.body = <<>>
    /\ up.writes < MaxWrites
    /\ up' = [up EXCEPT !.body = w.lines,
                        !.writes = @ + 1,
                        !.written = IF w.delta # <<>> THEN Append(@, w.delta) ELSE @,
                        !.order = IF w.delta # <<>>
                                  THEN Append(@, Arrival("content", w.delta, ""))
                                  ELSE IF w.announce /\ w.final
                                  THEN Append(@, Arrival("tool_calls", <<>>, w.item))
                                  ELSE @,
                        !.announced = IF w.announce THEN @ \cup {w.item} ELSE @,
                        !.fragments = IF w.fragment # <<>>
                                      THEN MapPut(@, w.item,
                                                  MapGet(@, w.item, <<>>) \o w.fragment)
                                      ELSE @,
                        !.finals = IF w.final
                                   THEN MapPut(@, w.item, MapGet(@, w.item, 0) + 1)
                                   ELSE @]
    /\ UNCHANGED <<rd, ct, pipeVars, streamVars, retryVars>>

\* the upstream ends the body, last being what follows the last newline
UpstreamClose(last) ==
    /\ rd.pc = "read"
    /\ ~up.closed
    /\ up.body = <<>>
    /\ up' = [up EXCEPT !.closed = TRUE, !.last = last]
    /\ UNCHANGED <<rd, ct, pipeVars, streamVars, retryVars>>

\* the error of a cancelled request context
ContextCanceled == [kind |-> "ctx", message |-> <<>>]

\* variant: the context is looked at between frames only
ctxErr_Mut(c, x) ==
    /\ "ctx" \in DOMAIN c
    /\ c.ctx = "cancelled"
    /\ x.dataLines = <<>>

\* ctx.Err() != nil at the top of the loop; c holds the request context
\* where the request has one that can be cancelled
ctxErr(c, x) ==
    /\ "ctx" \in DOMAIN c
    /\ c.ctx = "cancelled"

\* the iteration that finds the context cancelled: return "", ctx.Err()
ReadCtxDone ==
    /\ rd.pc = "read"
    /\ ctxErr(cfg, rd)
    /\ Publish(returnError([beginIteration(rd, <<>>, FALSE) EXCEPT !.err = ContextCanceled]))
    /\ UNCHANGED <<up, ct, streamVars, retryVars>>

ReadLine ==
    /\ rd.pc = "read"
    /\ ~ctxErr(cfg, rd)
    /\ up.body # <<>>
    /\ Publish(readLine(beginIteration(rd, Head(up.body), FALSE),
                        TrimRightCRLF(Head(up.body))))
    /\ up' = [up EXCEPT !.body = Tail(@)]
    /\ UNCHANGED <<ct, streamVars, retryVars>>

ReadEOF ==
    /\ rd.pc = "read"
    /\ ~ctxErr(cfg, rd)
    /\ up.body = <<>>
    /\ up.closed
    /\ Publish(readEOF(beginIteration(rd, up.last, TRUE)))
    /\ UNCHANGED <<up, ct, streamVars, retryVars>>

\* ------------------------------------------------------------------------
\* Chunk Translator (openaihttp/compat.go, handleStreamResponse)
\* ------------------------------------------------------------------------
ContentChunk(content) == [kind |-> "content", content |-> content]
ToolCallChunk(id, name, arguments, index) ==
    [kind |-> "tool_calls", id |-> id, name |-> name, arguments |-> arguments,
     index |-> index]
FinishChunk == [kind |-> "finish", finish_reason |-> "stop"]
DoneMarker == [kind |-> "[DONE]"]

toOpenAIChatToolCallChunkWithIndex(call, index) ==
    ToolCallChunk(IF call.id = "" THEN "call_backend_tool" ELSE call.id,
                  IF TrimSpaceStr(call.name) = "" THEN "native" ELSE TrimSpaceStr(call.name),
                  IF TrimSpace(call.args) = <<>> THEN <<"{", "}">> ELSE call.args,
                  index)

\* fmt.Sprintf("call_%d", n)
GeneratedCallID(n) ==
    CASE n = 0 -> "call_0"
      [] n = 1 -> "call_1"
      [] n = 2 -> "call_2"
      [] OTHER -> "call_n"

withCallID(call, next) ==
    IF call.id = "" THEN [call EXCEPT !.id = GeneratedCallID(next)] ELSE call

assignIndex(c, callID) ==
    IF callID \in DOMAIN c.toolCallIndexMap THEN c
    ELSE [c EXCEPT !.toolCallIndexMap = MapPut(@, callID, c.toolCallIndexNext),
                   !.toolCallIndexNext = @ + 1]

\* the end of one round of the drain loop, gated being the result of
\* toolCallArgumentsForStream
writeToolCallChunk(c, call, gated) ==
    IF ~gated.ok THEN c
    ELSE [c EXCEPT !.toolCallArgsSent = gated.lastArgs,
                   !.out = Append(@, toOpenAIChatToolCallChunkWithIndex(
                                         [call EXCEPT !.args = gated.args],
                                         c.toolCallIndexMap[call.id]))]

\* variant: a call id gets its index only when its notification is emitted
drainOne_Mut(c, call) ==
    IF toolCallArgumentsForStream(call, c.toolCallArgsSent).ok
    THEN [writeToolCallChunk(assignIndex(c, call.id), call,
                             toolCallArgumentsForStream(call, c.toolCallArgsSent))
              EXCEPT !.seen = Append(@, call)]
    ELSE [c EXCEPT !.seen = Append(@, call)]

\* one round of the drain loop; seen is the history of the notifications
\* taken off the queue
drainOne(c, call) ==
    [writeToolCallChunk(assignIndex(c, call.id), call,
                        toolCallArgumentsForStream(call, c.toolCallArgsSent))
         EXCEPT !.seen = Append(@, call)]

\* the closure flushToolCalls of handleStreamResponse, which runs one round
\* per queued notification and is not called once the handler has finished
RECURSIVE compatFlushToolCalls(_, _)
compatFlushToolCalls(c, chan) ==
    IF chan = <<>> \/ c.pc = "done" THEN c
    ELSE compatFlushToolCalls(drainOne(c, withCallID(Head(chan), c.toolCallIndexNext)),
                              Tail(chan))

\* the body of the receive loop for a message
writeContentChunk(c, content) ==
    IF content = <<>> THEN c
    ELSE [c EXCEPT !.out = Append(@, ContentChunk(content))]

\* variant: the [DONE] line without the finish chunk
writeFinish_Mut(c) == [c EXCEPT !.out = @ \o <<DoneMarker>>]

\* the finish chunk and the [DONE] line
writeFinish(c) == [c EXCEPT !.out = @ \o <<FinishChunk, DoneMarker>>]

newChunkTranslator ==
    [pc |-> "flush",
     toolCallIndexMap |-> EmptyMap,
     toolCallIndexNext |-> 0,
     toolCallArgsSent |-> EmptyMap,
     out |-> <<>>,
     seen |-> <<>>]

\* top of the receive loop: flushToolCalls()
ChunkFlushToolCalls ==
    /\ ct.pc = "flush"
    /\ ct' = [compatFlushToolCalls(ct, toolCallChan) EXCEPT !.pc = "recv"]
    /\ toolCallChan' = <<>>
    /\ UNCHANGED <<rd, up, srPipe, srClosed, streamVars, retryVars>>

\* sr.Recv() returns a message
ChunkRecv ==
    /\ ct.pc = "recv"
    /\ srPipe # <<>>
    /\ ct' = [writeContentChunk(ct, Head(srPipe)) EXCEPT !.pc = "flush"]
    /\ srPipe' = Tail(srPipe)
    /\ UNCHANGED <<rd, up, srClosed, toolCallChan, streamVars, retryVars>>

\* sr.Recv() returns an error: flushToolCalls() and break
ChunkRecvErr ==
    /\ ct.pc = "recv"
    /\ srPipe = <<>>
    /\ srClosed # ""
    /\ ct' = [compatFlushToolCalls(ct, toolCallChan) EXCEPT !.pc = "finish"]
    /\ toolCallChan' = <<>>
    /\ UNCHANGED <<rd, up, srPipe, srClosed, streamVars, retryVars>>

\* after the loop: flushToolCalls(), the finish chunk and the [DONE] line
ChunkFinish ==
    /\ ct.pc = "finish"
    /\ ct' = [writeFinish(compatFlushToolCalls(ct, toolCallChan)) EXCEPT !.pc = "done"]
    /\ toolCallChan' = <<>>
    /\ UNCHANGED <<rd, up, srPipe, srClosed, streamVars, retryVars>>

InitSSE ==
    /\ cfg = Idle /\ tr = Idle /\ sentText = <<>> /\ sentCalls = 0 /\ rq = Idle
    /\ srPipe = <<>> /\ srClosed = "" /\ toolCallChan = <<>>
    /\ rd = newReader
    /\ ct = newChunkTranslator
    /\ \E feed \in Feeds :
           up = [feed |-> feed, body |-> <<>>, closed |-> FALSE, last |-> <<>>,
                 writes |-> 0, written |-> <<>>, order |-> <<>>, announced |-> {},
                 fragments |-> EmptyMap, finals |-> EmptyMap]

NextSSE ==
    \/ \E w \in Writes(up.feed) : UpstreamWrite(w)
    \/ \E last \in LastLines(up.feed) : UpstreamClose(last)
    \/ ReadLine
    \/ ReadEOF
    \/ ChunkFlushToolCalls
    \/ ChunkRecv
    \/ ChunkRecvErr
    \/ ChunkFinish

SpecSSE == InitSSE /\ [][NextSSE]_vars

\* ------------------------------------------------------------------------
\* Properties of the reader, the interpreter and the Chunk Translator
\* ------------------------------------------------------------------------
\* the last iteration interpreted an event of this type
Interpreted(types) ==
    /\ rd.raw # <<>>
    /\ StringOf(rd.raw[1], "type") \in types

SnapshotEventTypes ==
    {"response.output_text.done", "response.content_part.added",
     "response.content_part.done", "response.output_item.done",
     "response.created", "response.completed"}

\* C7: once a text delta was observed, an output_text.done,
\* content_part.added, content_part.done, output_item.done, response.created
\* or response.completed event neither appends text to the accumulator nor
\* delivers text to the sink.
C7_NoSnapshotTextAfterDelta ==
    (Interpreted(SnapshotEventTypes) /\ rd.hadDelta) =>
        /\ rd.fullContent = rd.prevContent
        /\ rd.delta = <<>>

\* the line is "data:" followed by the sentinel and blanks only
IsSentinelLine(line) ==
    /\ line # <<>>
    /\ Head(line) = DataField
    /\ SelectSeq(Tail(line), LAMBDA tok : tok.t \notin {"sp", "cr"}) = <<DoneSentinel>>

SentinelRead == ~rd.eof /\ IsSentinelLine(rd.line)

\* C8: no frame that holds the sentinel is passed to the interpreter; the
\* iteration that reads the sentinel line interprets nothing and returns the
\* text accumulated so far without error, and nothing is read after the
\* return.
C8_SentinelEndsStream ==
    /\ [](/\ \A i \in 1..Len(rd.payload) : rd.payload[i] # DoneSentinel
          /\ SentinelRead =>
                 /\ rd.pc = "done"
                 /\ rd.payload = <<>> /\ rd.calls = <<>> /\ rd.delta = <<>>
                 /\ rd.result = [content |-> rd.prevContent, err |-> NoErr]
                 /\ rd.result.content = Concat(rd.sink))
    /\ [][rd.pc = "done" => rd' = rd]_vars

\* the sentinel arrived while a data line was buffered and after text
C8_Witness ==
    /\ SentinelRead
    /\ rd.pc = "done"
    /\ rd.dataLines # <<>>
    /\ rd.frames >= 1
    /\ rd.result.content # <<>>

ContentChunks(out) == SelectSeq(out, LAMBDA chunk : chunk.kind = "content")
ChunkContents(out) == [i \in 1..Len(ContentChunks(out)) |-> ContentChunks(out)[i].content]

\* C9: for a stream of output_text.delta events followed by the sentinel,
\* the content returned equals the concatenation of the increments
\* delivered to the sink, the increments delivered are the non-empty deltas
\* of the stream, once each and in order, and the Chunk Translator emits one
\* content chunk per non-empty delta in the same order.
C9_DeltasDeliveredOnce ==
    up.feed = "deltas" =>
        /\ ChunkContents(ct.out) \o srPipe = rd.sink
        /\ (rd.pc = "done" /\ SentinelRead) =>
               /\ rd.result.err = NoErr
               /\ rd.result.content = Concat(rd.sink)
               /\ rd.sink = up.written
        /\ (rd.pc = "done" /\ SentinelRead /\ ct.pc = "done") =>
               ChunkContents(ct.out) = up.written

C9_Witness ==
    /\ up.feed = "deltas"
    /\ rd.pc = "done" /\ SentinelRead
    /\ ct.pc = "done"
    /\ up.written = << <<"h">>, <<"i">>, <<"l", "o">> >>
    /\ rd.result.content = <<"h", "i", "l", "o">>
    /\ Len(ct.out) = 5

\* the last iteration interpreted an arguments-done event for item i, and
\* the upstream wrote nothing since
ArgumentsDoneFor(i) ==
    /\ Interpreted({"response.function_call_arguments.done"})
    /\ up.body = <<>>
    /\ TrimSpaceStr(StringOf(rd.raw[1], "item_id")) = i

CompletedCall(i, args) ==
    << ToolCall(rd.functionCalls.itemMeta[i].CallID, rd.functionCalls.itemMeta[i].Name,
                args, "completed") >>

\* C10 as stated: the arguments are the explicit field when present and
\* non-empty, else the concatenation of all fragments received for the item.
C10_Original ==
    \A i \in {"i1", "i2"} :
        ArgumentsDoneFor(i) =>
            IF i \in up.announced
            THEN rd.calls = CompletedCall(i,
                                IF TextOf(rd.raw[1], "arguments") # <<>>
                                THEN TextOf(rd.raw[1], "arguments")
                                ELSE MapGet(up.fragments, i, <<>>))
            ELSE rd.calls = <<>>

\* C10 (amended): an arguments-done event for item i yields exactly one
\* tool-call record if a call id and name were recorded for i, none
\* otherwise; its arguments are the explicit field trimmed of surrounding
\* blanks when that is non-empty, else, when no earlier event carried or
\* closed the arguments of i, the trimmed concatenation in arrival order of
\* all fragments received for i.
C10_ArgumentsDone ==
    \A i \in {"i1", "i2"} :
        ArgumentsDoneFor(i) =>
            IF i \in up.announced
            THEN /\ Len(rd.calls) = 1
                 /\ rd.calls = CompletedCall(i, rd.calls[1].args)
                 /\ TrimSpace(TextOf(rd.raw[1], "arguments")) # <<>> =>
                        rd.calls[1].args = TrimSpace(TextOf(rd.raw[1], "arguments"))
                 /\ (TrimSpace(TextOf(rd.raw[1], "arguments")) = <<>>
                         /\ MapGet(up.finals, i, 0) = 1) =>
                        rd.calls[1].args = TrimSpace(MapGet(up.fragments, i, <<>>))
            ELSE rd.calls = <<>>

\* two fragments, then a done event without arguments
C10_Witness ==
    /\ ArgumentsDoneFor("i1")
    /\ "arguments" \notin DOMAIN rd.raw[1]
    /\ MapGet(up.finals, "i1", 0) = 1
    /\ MapGet(up.fragments, "i1", <<>>) = <<"{", "a", "b", "}", " ">>
    /\ rd.calls = << ToolCall("c1", "f", <<"{", "a", "b", "}">>, "completed") >>

\* ------------------------------------------------------------------------
\* Properties of the Chunk Translator's tool-call chunks
\* ------------------------------------------------------------------------
\* two argument strings decode to the same JSON document
JSONEqual(a, b) ==
    \/ IsJSONObject(a) /\ IsJSONObject(b) /\ ObjectKeys(a) = ObjectKeys(b)
    \/ IsJSONScalar(a) /\ IsJSONScalar(b)

\* the notifications drained for a call id, and the chunks written for it
SeenFor(id) == SelectSeq(ct.seen, LAMBDA c : TrimSpaceStr(c.id) = id)
ToolCallChunksFor(id) ==
    SelectSeq(ct.out, LAMBDA e : e.kind = "tool_calls" /\ e.id = id)
SeenIDs == {TrimSpaceStr(ct.seen[i].id) : i \in 1..Len(ct.seen)}

\* the call ids drained so far, as flushToolCalls keys them, and the number
\* of distinct call ids drained before the first notification of id
DrainedIDs == {ct.seen[i].id : i \in 1..Len(ct.seen)}
FirstDrained(id) == CHOOSE i \in 1..Len(ct.seen) :
                        /\ ct.seen[i].id = id
                        /\ \A j \in 1..(i - 1) : ct.seen[j].id # id
ArrivalRank(id) == Cardinality({ct.seen[j].id : j \in 1..(FirstDrained(id) - 1)})

\* C33: the k-th distinct call id drained from the tool-call queue (k from 0)
\* has index k in the index map, whether or not any of its notifications was
\* emitted; every tool-call chunk written carries the index of its call id;
\* two different call ids never have the same index.
C33_StableInjectiveIndexes ==
    /\ DOMAIN ct.toolCallIndexMap = DrainedIDs
    /\ \A id \in DrainedIDs : ct.toolCallIndexMap[id] = ArrivalRank(id)
    /\ \A i \in 1..Len(ct.out) :
           ct.out[i].kind = "tool_calls" =>
               /\ ct.out[i].id \in DrainedIDs
               /\ ct.out[i].index = ArrivalRank(ct.out[i].id)
    /\ \A a, b \in DrainedIDs :
           a # b => ct.toolCallIndexMap[a] # ct.toolCallIndexMap[b]

\* the first call id drained was never emitted, and a later call id was
\* emitted with index 1
C33_Witness ==
    /\ ct.pc = "done"
    /\ \E a, b \in DrainedIDs :
           /\ ArrivalRank(a) = 0
           /\ ToolCallChunksFor(a) = <<>>
           /\ ArrivalRank(b) = 1
           /\ Len(ToolCallChunksFor(b)) >= 1
           /\ \A i \in 1..Len(ToolCallChunksFor(b)) : ToolCallChunksFor(b)[i].index = 1

\* the number of places where the arguments of successive notifications
\* stop being JSON-equal
ArgumentChanges(n) ==
    Cardinality({i \in 1..(Len(n) - 1) : ~JSONEqual(n[i].args, n[i + 1].args)})

DataOf(line) ==
    IF line # <<>> /\ Head(line) = DataField THEN TrimSpaceTokens(Tail(line)) ELSE <<>>

\* the data lines the body holds since the last blank line when it ends:
\* those buffered from lines that ended with a newline, then the last line
LinesAtEOF ==
    IF DataOf(rd.line) # <<>> THEN Append(rd.dataLines, DataOf(rd.line))
    ELSE rd.dataLines

\* C12: when the body ends without the sentinel and without a terminal
\* success event, the data lines since the last blank line, the last line
\* included whether or not it ends with a newline, are interpreted as one
\* frame, and unless that frame reports an error the reader returns all
\* accumulated text with no error.
C12_EOFFlushesBufferedFrame ==
    (rd.pc = "done" /\ rd.eof) =>
        /\ rd.payload = IF LinesAtEOF = <<>> THEN <<>> ELSE JoinLines(LinesAtEOF)
        /\ rd.err.kind \in {"none", "done"} =>
               rd.result = [content |-> rd.fullContent, err |-> NoErr]

\* ------------------------------------------------------------------------
\* Properties of the Stream Translator's event sequence
\* ------------------------------------------------------------------------
EventsOf(o, ev) == SelectSeq(o, LAMBDA e : e.ev = ev)

\* the content_block_start at position i has its content_block_stop before
\* position last
StoppedBefore(o, i, last) ==
    \E j \in (i + 1)..(last - 1) :
        o[j].ev = "content_block_stop" /\ o[j].index = o[i].index

TerminalSequence(o) ==
    /\ Len(o) >= 3
    /\ o[Len(o) - 1].ev = "message_delta"
    /\ o[Len(o)].ev = "message_stop"
    /\ Len(EventsOf(o, "message_delta")) = 1
    /\ Len(EventsOf(o, "message_stop")) = 1
    /\ \A i \in 1..Len(o) :
           o[i].ev = "content_block_start" => StoppedBefore(o, i, Len(o) - 1)

\* C13: in every run of the Stream Translator, the runs in which the
\* upstream stream ends with an error included, the output of a finished
\* response ends with exactly one message_delta followed by exactly one
\* message_stop, nothing is ever written after message_stop, and every
\* content_block_start has its content_block_stop before message_delta.
C13_StreamEndsWithTerminalEvents ==
    /\ tr.out[1].ev = "message_start"
    /\ \A i \in 1..Len(tr.out) :
           /\ tr.out[i].ev = "message_stop" => i = Len(tr.out)
           /\ tr.out[i].ev = "message_delta" => i = Len(tr.out) - 1
    /\ tr.pc = "done" => TerminalSequence(tr.out)

\* a run that ended on the worker's error after a text block and a tool_use
\* block
C13_Witness ==
    /\ tr.pc = "done"
    /\ srClosed = "err"
    /\ TerminalSequence(tr.out)
    /\ \E i \in 1..Len(tr.out) :
           tr.out[i].ev = "content_block_start" /\ tr.out[i].btype = "text"
    /\ ToolUseEmitted(tr.out)

\* ------------------------------------------------------------------------
\* Properties of the Chunk Translator's chunk sequence
\* ------------------------------------------------------------------------
ChunksOf(o, kind) == SelectSeq(o, LAMBDA e : e.kind = kind)

\* C14: every streamed response of the Chunk Translator, one whose upstream
\* stream ended with an error included, ends with exactly one chunk that
\* carries a finish_reason followed by exactly one data: [DONE] line, and no
\* content or tool-call chunk is written after the finish chunk.
C14_ChunksEndWithFinishAndDone ==
    /\ \A i \in 1..Len(ct.out) :
           /\ ct.out[i].kind = "[DONE]" => i = Len(ct.out)
           /\ ct.out[i].kind = "finish" => i = Len(ct.out) - 1
    /\ ct.pc = "done" =>
           /\ Len(ct.out) >= 2
           /\ ct.out[Len(ct.out) - 1].kind = "finish"
           /\ ct.out[Len(ct.out) - 1].finish_reason # ""
           /\ ct.out[Len(ct.out)].kind = "[DONE]"
           /\ Len(ChunksOf(ct.out, "finish")) = 1
           /\ Len(ChunksOf(ct.out, "[DONE]")) = 1

\* a response finished after the reader returned an error, with a content
\* chunk written before
C14_Witness ==
    /\ ct.pc = "done"
    /\ srClosed = "err"
    /\ Len(ChunksOf(ct.out, "content")) > 0
    /\ ct.out[Len(ct.out) - 1] = FinishChunk
    /\ ct.out[Len(ct.out)] = DoneMarker

\* ------------------------------------------------------------------------
\* Properties of the tool-call queue
\* ------------------------------------------------------------------------
\* C15: when the reader worker produces a tool-call notification while the
\* tool-call queue is full, the oldest pending notification is the one
\* dropped: the newest notification the reader produced is in the queue
\* until the translator takes it off.
C15_NewestNotificationRetained ==
    rd.calls # <<>> =>
        \/ \E i \in 1..Len(toolCallChan) : toolCallChan[i] = rd.calls[Len(rd.calls)]
        \/ \E i \in 1..Len(ct.seen) : ct.seen[i] = rd.calls[Len(rd.calls)]

\* ------------------------------------------------------------------------
\* Properties of the two ways from the reader worker to the translator
\* ------------------------------------------------------------------------
\* a step in which the reader worker ran one iteration
ReaderStep ==
    \/ Len(up'.body) < Len(up.body)
    \/ rd.pc = "read" /\ rd'.pc = "done"

\* the iteration handed every notification to the handler, which queued it
\* if there was room and gave it up otherwise, and sent its increment
HandlerReturned ==
    /\ Len(toolCallChan') =
           IF Len(toolCallChan) + Len(rd'.calls) <= ToolCallChanCap
           THEN Len(toolCallChan) + Len(rd'.calls)
           ELSE ToolCallChanCap
    /\ srPipe' = IF rd'.delta # <<>> THEN Append(srPipe, rd'.delta) ELSE srPipe

\* C16: backpressure loses tool-call notifications only: an iteration of the
\* reader worker that produces notifications completes whatever the
\* occupancy of the queue, which keeps at most its capacity, while the
\* non-empty text increments the reader produced are, once each and in
\* order, those the translator has written followed by those waiting in the
\* pipe, and all of them are written when the translator has finished.
C16_LossyOnlyForToolCalls ==
    /\ [](/\ ChunkContents(ct.out) \o srPipe = rd.sink
          /\ \A i \in 1..Len(rd.sink) : rd.sink[i] # <<>>
          /\ Len(srPipe) <= PipeCap
          /\ Len(toolCallChan) <= ToolCallChanCap
          /\ ct.pc = "done" => ChunkContents(ct.out) = rd.sink)
    /\ [][ReaderStep => HandlerReturned]_vars

\* the reader returned after a frame of 17 notifications met a queue that
\* could not take them all, and the increment it produced before was written
C16_Witness ==
    /\ up.feed = "flood"
    /\ rd.pc = "done"
    /\ Len(rd.calls) > ToolCallChanCap
    /\ Len(toolCallChan) = ToolCallChanCap
    /\ rd.sink = << <<"h">> >>
    /\ ChunkContents(ct.out) = rd.sink

\* ------------------------------------------------------------------------
\* Order of emission
\* ------------------------------------------------------------------------
\* the content and tool-call chunks written, named as the arrivals are
EmittedArrivals(o) ==
    [i \in 1..Len(SelectSeq(o, LAMBDA e : e.kind \in {"content", "tool_calls"})) |->
        IF SelectSeq(o, LAMBDA e : e.kind \in {"content", "tool_calls"})[i].kind = "content"
        THEN Arrival("content",
                     SelectSeq(o, LAMBDA e : e.kind \in {"content", "tool_calls"})[i].content,
                     "")
        ELSE Arrival("tool_calls", <<>>,
                     SelectSeq(o, LAMBDA e : e.kind \in {"content", "tool_calls"})[i].id)]

\* a is b with some elements left out
RECURSIVE IsSubsequence(_, _)
IsSubsequence(a, b) ==
    IF a = <<>> THEN TRUE
    ELSE IF b = <<>> THEN FALSE
    ELSE IF Head(a) = Head(b) THEN IsSubsequence(Tail(a), Tail(b))
    ELSE IsSubsequence(a, Tail(b))

\* C17: for every interleaving of the reader worker and the translator, the
\* text chunks and tool-call chunks are written in the order in which their
\* frames arrived: what is written is, in the same order, what arrived
\* (less the notifications that were suppressed).
C17_EmissionOrderIsArrivalOrder ==
    up.feed = "mixed" => IsSubsequence(EmittedArrivals(ct.out), up.order)

\* ------------------------------------------------------------------------
\* Properties of the Stream Translator's stop conditions
\* ------------------------------------------------------------------------
\* a step in which the translator detects a stop condition
StopDetected == Len(tr'.trig) > Len(tr.trig)

\* a step in which the translator receives a text message
IncrementRead == Len(srPipe') < Len(srPipe)

\* C18: whenever the Stream Translator detects a stop condition (a stop
\* sequence match or the token budget being exceeded), the upstream request
\* context is cancelled in that step, before message_delta and message_stop
\* are written, and from then on the translator reads no upstream increment.
C18_StopCancelsUpstream ==
    /\ [](tr.trig # <<>> => tr.stopTriggered /\ tr.cancelled)
    /\ [][StopDetected =>
              /\ tr'.cancelled
              /\ tr'.trig[Len(tr'.trig)] \in {"stop_sequence", "max_tokens"}
              /\ EventsOf(tr'.out, "message_delta") = <<>>
              /\ EventsOf(tr'.out, "message_stop") = <<>>]_vars
    /\ [][tr.trig # <<>> => ~IncrementRead]_vars

\* a response finished after a stop sequence was matched, with an increment
\* of the worker left unread in the pipe
C18_Witness ==
    /\ tr.pc = "done"
    /\ tr.trig = <<"stop_sequence">>
    /\ tr.cancelled
    /\ srPipe # <<>>
    /\ TerminalSequence(tr.out)

\* the same for the token budget
C18_WitnessBudget ==
    /\ tr.pc = "done"
    /\ tr.trig = <<"max_tokens">>
    /\ tr.cancelled
    /\ srPipe # <<>>

\* ------------------------------------------------------------------------
\* Properties of the Stream Translator's content blocks
\* ------------------------------------------------------------------------
BlockStarts(o) == EventsOf(o, "content_block_start")

\* the block started at position j is open at position i
OpenAt(o, j, i) ==
    /\ j < i
    /\ o[j].ev = "content_block_start"
    /\ \A k \in (j + 1)..(i - 1) :
           ~(o[k].ev = "content_block_stop" /\ o[k].index = o[j].index)

DeltaTypeOf(btype) == IF btype = "text" THEN "text_delta" ELSE "input_json_delta"

\* C19: within one response the content block indexes are 0, 1, 2, ... in
\* the order of the content_block_start events, so no index is started twice
\* and a text block and a tool_use block never share one; every delta and
\* every stop event carries the index of a block that is open, the delta
\* being of the kind of its block; no event refers to an index after its
\* content_block_stop.
C19_BlockIndexDiscipline ==
    /\ \A k \in 1..Len(BlockStarts(tr.out)) : BlockStarts(tr.out)[k].index = k - 1
    /\ \A i \in 1..Len(tr.out) :
           /\ tr.out[i].ev = "content_block_delta" =>
                  \E j \in 1..(i - 1) :
                      /\ OpenAt(tr.out, j, i)
                      /\ tr.out[j].index = tr.out[i].index
                      /\ tr.out[i].btype = DeltaTypeOf(tr.out[j].btype)
           /\ tr.out[i].ev = "content_block_stop" =>
                  \E j \in 1..(i - 1) :
                      OpenAt(tr.out, j, i) /\ tr.out[j].index = tr.out[i].index
    /\ \A j \in 1..Len(tr.out) : \A i \in (j + 1)..Len(tr.out) :
           (tr.out[j].ev = "content_block_stop"
                /\ tr.out[i].ev \in {"content_block_start", "content_block_delta",
                                     "content_block_stop"})
               => tr.out[i].index # tr.out[j].index

\* a finished response with a text block 0, a tool_use block 1 and a text
\* block 2
C19_Witness ==
    /\ tr.pc = "done"
    /\ Len(BlockStarts(tr.out)) = 3
    /\ BlockStarts(tr.out)[1].btype = "text"
    /\ BlockStarts(tr.out)[2].btype = "tool_use"
    /\ BlockStarts(tr.out)[3].btype = "text"
    /\ BlockStarts(tr.out)[3].index = 2

\* the number of blocks open after the first n events
OpenBlocks(o, n) ==
    Len(EventsOf(Take(o, n), "content_block_start"))
        - Len(EventsOf(Take(o, n), "content_block_stop"))

AtMostOneBlockOpen(o) == \A n \in 0..Len(o) : OpenBlocks(o, n) \in {0, 1}

\* the text block started at position i is opened by a non-empty text delta
OpenedByText(o, i) ==
    /\ i < Len(o)
    /\ o[i + 1].ev = "content_block_delta"
    /\ o[i + 1].btype = "text_delta"
    /\ o[i + 1].index = o[i].index
    /\ o[i + 1].text # <<>>

\* the text block started at position i is the empty block written when the
\* response ends with no content block emitted
IsFallbackBlock(o, i) ==
    /\ Len(BlockStarts(o)) = 1
    /\ i + 2 <= Len(o)
    /\ o[i + 1].ev = "content_block_stop"
    /\ o[i + 1].index = o[i].index
    /\ o[i + 2].ev = "message_delta"

\* text written after a tool_use block is in a block of a greater index
FreshIndexAfterToolUse(o) ==
    \A i \in 1..Len(o) : \A j \in (i + 1)..Len(o) :
        (o[i].btype = "tool_use" /\ o[j].btype = "text_delta") => o[j].index > o[i].index

\* a step that writes a tool_use block first writes the text held back
ToolUseBlocks(o) == SelectSeq(o, LAMBDA e : e.btype = "tool_use")
ToolUseStep == Len(ToolUseBlocks(tr'.out)) > Len(ToolUseBlocks(tr.out))
TailFlushedFirst ==
    /\ tr'.textBuf = <<>>
    /\ EmittedText(tr'.out) = EmittedText(tr.out) \o tr.textBuf

\* C20 as stated: a text block is opened only when the first non-empty text
\* is emitted.
C20_Original ==
    /\ AtMostOneBlockOpen(tr.out)
    /\ FreshIndexAfterToolUse(tr.out)
    /\ \A i \in 1..Len(tr.out) :
           (tr.out[i].ev = "content_block_start" /\ tr.out[i].btype = "text")
               => OpenedByText(tr.out, i)

\* C20 (amended): at most one content block is open at any time; a text
\* block is opened only when a non-empty text is emitted, except for the one
\* empty text block written and closed just before message_delta when the
\* response ends with no content block emitted; an open text block is closed,
\* after the text held back is written, before a tool_use block starts; text
\* that follows a tool_use block is in a new text block with a fresh index.
C20_OneOpenBlock ==
    /\ [](/\ AtMostOneBlockOpen(tr.out)
          /\ FreshIndexAfterToolUse(tr.out)
          /\ \A i \in 1..Len(tr.out) :
                 (tr.out[i].ev = "content_block_start" /\ tr.out[i].btype = "text")
                     => OpenedByText(tr.out, i) \/ IsFallbackBlock(tr.out, i))
    /\ [][ToolUseStep => TailFlushedFirst]_vars

\* with the stop sequence ST configured, the text S is held back, written
\* when a tool call arrives, its block closed, and the text after the
\* tool_use block is in block 2
C20_Witness ==
    /\ cfg.stopSequences = << <<"S", "T">> >>
    /\ Len(tr.out) >= 9
    /\ tr.out[2] = Event("content_block_start", 0, "text", <<>>)
    /\ tr.out[3] = Event("content_block_delta", 0, "text_delta", <<"S">>)
    /\ tr.out[4] = Event("content_block_stop", 0, "", <<>>)
    /\ tr.out[5].btype = "tool_use"
    /\ tr.out[8] = Event("content_block_start", 2, "text", <<>>)
    /\ tr.out[9].btype = "text_delta"

\* ------------------------------------------------------------------------
\* Either translator fed with tool-call notifications of every shape
\* ------------------------------------------------------------------------
\* the notifications a reader worker may hand to the tool-call handler
NotificationChoices ==
    { [id |-> "c1", name |-> "f", args |-> <<"{", "a", "}">>, status |-> "completed"],
      [id |-> "c1", name |-> "f", args |-> <<"{", "a">>, status |-> "in_progress"],
      [id |-> "c1", name |-> "f", args |-> <<"{", "a", "}">>, status |-> "in_progress"],
      [id |-> "c1", name |-> "f", args |-> <<"{", "a">>, status |-> "completed"],
      [id |-> "c1", name |-> "f", args |-> <<"1">>, status |-> "completed"],
      [id |-> "c1", name |-> "f", args |-> <<"n">>, status |-> "completed"],
      [id |-> "c1", name |-> "f", args |-> <<>>, status |-> "completed"],
      [id |-> "c1", name |-> "f", args |-> <<"{", "b", "}">>, status |-> "searching"],
      [id |-> "c2", name |-> "Task", args |-> <<>>, status |-> "in_progress"],
      [id |-> "c2", name |-> "Task", args |-> <<"{", "}">>, status |-> "completed"],
      [id |-> "c2", name |-> "Task", args |-> <<"{", "d">>, status |-> "in_progress"],
      [id |-> "c2", name |-> "Task", args |-> <<"{", "d", "}">>, status |-> "completed"],
      [id |-> "c2", name |-> "TASK", args |-> <<"{", "d", "p", "s", "}">>,
       status |-> "in_progress"],
      [id |-> "c2", name |-> "Task", args |-> <<"n">>, status |-> "completed"],
      [id |-> "c2", name |-> " Task ", args |-> <<"{", "s", "p", "d", "}">>,
       status |-> "Completed"] }

\* the request is served by writeMessagesStream, or by handleStreamResponse
InitGate ==
    /\ \E endpoint \in {"messages", "chat"} :
           /\ tr = IF endpoint = "messages" THEN newStreamTranslator ELSE Idle
           /\ ct = IF endpoint = "chat" THEN newChunkTranslator ELSE Idle
           /\ up = [feed |-> endpoint, notified |-> <<>>]
    /\ cfg \in [stopSequences : {<<>>},
                maxTokens : {GateMaxTokens},
                disableParallelToolUse : BOOLEAN]
    /\ srPipe = <<>> /\ srClosed = "" /\ toolCallChan = <<>>
    /\ sentText = <<>> /\ sentCalls = 0
    /\ rq = Idle /\ rd = Idle

\* the reader worker calls the tool-call handler: a non-blocking send
Notify(call) ==
    /\ srClosed = ""
    /\ Len(up.notified) < MaxNotifications
    /\ toolCallChan' = handleToolCalls(toolCallChan, <<call>>)
    /\ up' = [up EXCEPT !.notified = Append(@, call)]
    /\ UNCHANGED <<rd, ct, srPipe, srClosed, streamVars, retryVars>>

NextGate ==
    \/ \E call \in NotificationChoices : Notify(call)
    \/ sentText = <<>> /\ WorkerSendText(<<"S">>)
    \/ \E kind \in {"eof", "err"} : WorkerClose(kind)
    \/ FlushToolCalls
    \/ RecvText
    \/ RecvErr
    \/ FinishStream
    \/ ChunkFlushToolCalls
    \/ ChunkRecv
    \/ ChunkRecvErr
    \/ ChunkFinish

SpecGate == InitGate /\ [][NextGate]_vars

\* ------------------------------------------------------------------------
\* Properties of the tool-call gating
\* ------------------------------------------------------------------------
IsCompleted(n) == EqualFold(TrimSpaceStr(n.status), "completed")

\* the arguments of n parse as a JSON object; a call without arguments
\* counts as a call with the empty object
HasObjectArguments(n) == IsJSONObject(n.args) \/ TrimSpace(n.args) = <<>>

IsToolUseStart(e) == e.ev = "content_block_start" /\ e.btype = "tool_use"

\* the events at i, i + 1, i + 2 are one tool_use triplet
IsToolUseTriplet(o, i) ==
    /\ i + 2 <= Len(o)
    /\ o[i].ev = "content_block_start"
    /\ o[i + 1].ev = "content_block_delta"
    /\ o[i + 1].btype = "input_json_delta"
    /\ o[i + 1].index = o[i].index
    /\ o[i + 2].ev = "content_block_stop"
    /\ o[i + 2].index = o[i].index

\* the input_json_delta at position i carries the arguments of a
\* notification that is completed and has JSON-object arguments
FromCompletedObject(o, i) ==
    \E k \in 1..Len(up.notified) :
        /\ IsCompleted(up.notified[k])
        /\ HasObjectArguments(up.notified[k])
        /\ IsJSONObject(o[i].text)
        /\ ObjectKeys(o[i].text) = ObjectKeys(up.notified[k].args)

\* C21: the Stream Translator emits a tool_use block only for a notification
\* whose status is completed and whose arguments parse as a JSON object, and
\* each block is the uninterrupted triplet content_block_start, one
\* input_json_delta, content_block_stop.
C21_ToolUseOnlyForCompletedObjects ==
    up.feed = "messages" =>
        /\ \A i \in 1..Len(tr.out) :
               IsToolUseStart(tr.out[i]) =>
                   IsToolUseTriplet(tr.out, i) /\ FromCompletedObject(tr.out, i + 1)
        /\ \A i \in 1..Len(tr.out) :
               tr.out[i].btype = "input_json_delta" =>
                   i > 1 /\ IsToolUseStart(tr.out[i - 1])

\* a notification for the tool Task that may be emitted
TaskValid(n) ==
    /\ IsTaskName(n.name)
    /\ IsCompleted(n)
    /\ IsJSONObject(n.args)
    /\ {"d", "p", "s"} \subseteq ObjectKeys(n.args)

\* what either translator has written for tool calls: the id, the name and
\* the arguments of each tool_use block or tool-call chunk
ToolEmissions ==
    IF up.feed = "messages"
    THEN [i \in 1..Len(SelectSeq(tr.out, IsToolUseStart)) |->
             [id |-> SelectSeq(tr.out, IsToolUseStart)[i].id,
              name |-> SelectSeq(tr.out, IsToolUseStart)[i].name,
              arguments |-> SelectSeq(tr.out,
                                LAMBDA e : e.btype = "input_json_delta")[i].text]]
    ELSE [i \in 1..Len(ChunksOf(ct.out, "tool_calls")) |->
             [id |-> ChunksOf(ct.out, "tool_calls")[i].id,
              name |-> ChunksOf(ct.out, "tool_calls")[i].name,
              arguments |-> ChunksOf(ct.out, "tool_calls")[i].arguments]]

EmittedFor(n) ==
    \E i \in 1..Len(ToolEmissions) :
        /\ ToolEmissions[i].id = TrimSpaceStr(n.id)
        /\ ToolEmissions[i].name = TrimSpaceStr(n.name)
        /\ IsJSONObject(ToolEmissions[i].arguments)
        /\ ObjectKeys(ToolEmissions[i].arguments) = ObjectKeys(n.args)

TranslatorDone == IF up.feed = "messages" THEN tr.pc = "done" ELSE ct.pc = "done"

\* every notification before the k-th is a suppressed one of the same call
SuppressedBefore(k) ==
    \A j \in 1..(k - 1) :
        /\ TrimSpaceStr(up.notified[j].id) = TrimSpaceStr(up.notified[k].id)
        /\ IsTaskName(up.notified[j].name)
        /\ ~TaskValid(up.notified[j])

C22_WitnessChunk ==
    /\ up.feed = "chat"
    /\ ct.pc = "done"
    /\ Len(up.notified) = 2
    /\ up.notified[1] = [id |-> "c2", name |-> "Task", args |-> <<"{", "d">>,
                         status |-> "in_progress"]
    /\ TaskValid(up.notified[2])
    /\ Len(ToolEmissions) = 1
    /\ ToolEmissions[1].arguments = <<"{", "d", "p", "s", "}">>

\* ------------------------------------------------------------------------
\* The fallback block of the Stream Translator
\* ------------------------------------------------------------------------
NothingEmitted(o) ==
    /\ EmittedText(o) = <<>>
    /\ SelectSeq(o, IsToolUseStart) = <<>>

\* C23: every finished response of the Stream Translator contains at least
\* one content block: when no text and no tool_use block was emitted, exactly
\* one empty text block (content_block_start then content_block_stop, index
\* 0) stands between message_start and message_delta; the stop reason of an
\* empty stream is end_turn.
C23_AtLeastOneContentBlock ==
    tr.pc = "done" =>
        /\ Len(BlockStarts(tr.out)) >= 1
        /\ NothingEmitted(tr.out) =>
               /\ Len(tr.out) = 5
               /\ tr.out[2] = Event("content_block_start", 0, "text", <<>>)
               /\ tr.out[3] = Event("content_block_stop", 0, "", <<>>)
               /\ tr.out[4].ev = "message_delta"
        /\ (sentText = <<>> /\ sentCalls = 0) =>
               NothingEmitted(tr.out) /\ MessageDelta(tr.out).btype = "end_turn"

\* a stop sequence matched at the start of the text left nothing to emit
C23_Witness ==
    /\ tr.pc = "done"
    /\ sentText # <<>>
    /\ tr.trig = <<"stop_sequence">>
    /\ NothingEmitted(tr.out)
    /\ tr.out[2] = Event("content_block_start", 0, "text", <<>>)
    /\ tr.out[3] = Event("content_block_stop", 0, "", <<>>)

\* an empty stream
C23_WitnessEmpty ==
    /\ tr.pc = "done"
    /\ sentText = <<>> /\ sentCalls = 0
    /\ Len(tr.out) = 5
    /\ MessageDelta(tr.out).btype = "end_turn"

\* ------------------------------------------------------------------------
\* The pending buffer of the Stop Scanner
\* ------------------------------------------------------------------------
\* the text the receive loop has taken from the stream so far
ReceivedText == Take(sentText, Len(sentText) - Len(Concat(srPipe)))

\* a step in which sr.Recv() returned a message and emitTextSafe ran
ScanPassComplete ==
    /\ maxClaudeStopSequenceLen(cfg.stopSequences) >= 1 =>
           Len(tr.textBuf) < maxClaudeStopSequenceLen(cfg.stopSequences)
    /\ (maxClaudeStopSequenceLen(cfg.stopSequences) <= 1 \/ tr.stopTriggered) =>
           tr.textBuf = <<>>
    /\ ~tr.stopTriggered => EmittedText(tr.out) \o tr.textBuf = ReceivedText

\* C24: after every return of emitTextSafe the pending buffer is shorter than
\* the longest configured stop sequence (when one is configured); it is empty
\* when maxStopLen is at most 1 or a stop condition has triggered; and while
\* no stop has triggered the text emitted so far followed by the buffer is
\* the text received so far.
C24_StopScannerBuffer ==
    [][(srPipe # <<>> /\ srPipe' = Tail(srPipe)) => ScanPassComplete']_vars

\* emitTextSafe returned with text both emitted and held back
C24_Witness ==
    /\ tr.pc = "flush"
    /\ ~tr.stopTriggered
    /\ maxClaudeStopSequenceLen(cfg.stopSequences) = 3
    /\ Len(tr.textBuf) = 2
    /\ EmittedText(tr.out) # <<>>
    /\ EmittedText(tr.out) \o tr.textBuf = ReceivedText

\* ------------------------------------------------------------------------
\* /v1/responses: the passthrough of the upstream stream
\* ------------------------------------------------------------------------
\* One line of the upstream body.  k is "blank", "other" (a line without
\* the data: prefix) or "data"; a data line carries one of: a whole JSON
\* object with a type and a response member ("whole"), the first and the
\* second half of a JSON object spread over two lines ("open", "close"),
\* text that is not JSON ("junk"), the sentinel [DONE] ("done"), nothing
\* ("empty").  pad: the payload is surrounded by extra white space.
RespLine(k, form, type, response, pad) ==
    [k |-> k, form |-> form, type |-> type, response |-> response, pad |-> pad]

RespBlank == RespLine("blank", "", "", "", FALSE)
RespData(form, type, response) == RespLine("data", form, type, response, FALSE)

ResponsesLines ==
    { RespBlank,
      RespLine("other", "", "", "", FALSE),
      RespData("whole", "response.output_text.delta", ""),
      RespLine("data", "whole", "response.output_text.delta", "", TRUE),
      RespData("whole", "response.completed", "r1"),
      RespData("whole", "response.completed", "r2"),
      RespData("whole", "response.completed", "null"),
      RespData("whole", "response.failed", ""),
      RespData("whole", "error", ""),
      RespData("whole", "", ""),
      RespData("whole", " response.created ", ""),
      RespData("open", "response.in_progress", ""),
      RespData("close", "", ""),
      RespData("junk", "", ""),
      RespData("done", "", ""),
      RespData("empty", "", "") }

\* strings.TrimSpace(strings.TrimPrefix(line, "data:"))
trimData(line) == [line EXCEPT !.pad = FALSE]

\* json.Unmarshal of strings.Join(dataLines, "\n") into the envelope
unmarshalEnvelope(dataLines) ==
    IF Len(dataLines) = 1 /\ dataLines[1].form = "whole"
    THEN [ok |-> TRUE, type |-> dataLines[1].type, response |-> dataLines[1].response]
    ELSE IF Len(dataLines) = 2 /\ dataLines[1].form = "open" /\ dataLines[2].form = "close"
    THEN [ok |-> TRUE, type |-> dataLines[1].type, response |-> dataLines[1].response]
    ELSE [ok |-> FALSE, type |-> "", response |-> ""]

\* lines written to the client
EventLine(type) == RespLine("event", "", type, "", FALSE)

\* variant: the event is written without looking at its type
flushOfficialEvent_Mut(out, dataLines) ==
    IF dataLines = <<>> THEN out
    ELSE out \o <<EventLine(TrimSpaceStr(unmarshalEnvelope(dataLines).type))>>
             \o dataLines \o <<RespBlank>>

flushOfficialEvent(out, dataLines) ==
    IF dataLines = <<>> THEN out
    ELSE IF ~unmarshalEnvelope(dataLines).ok THEN out
    ELSE IF TrimSpaceStr(unmarshalEnvelope(dataLines).type) = "" THEN out
    ELSE out \o <<EventLine(TrimSpaceStr(unmarshalEnvelope(dataLines).type))>>
             \o dataLines \o <<RespBlank>>

\* variant: response.failed and error events are passed over
captureCompletedEvent_Mut(r, dataLines) ==
    IF dataLines = <<>> \/ r.completed # "" THEN r
    ELSE IF ~unmarshalEnvelope(dataLines).ok THEN r
    ELSE IF TrimSpaceStr(unmarshalEnvelope(dataLines).type) = "response.completed"
    THEN IF unmarshalEnvelope(dataLines).response \in {"", "null"}
         THEN [r EXCEPT !.err = "response.completed without response field"]
         ELSE [r EXCEPT !.completed = unmarshalEnvelope(dataLines).response]
    ELSE r

\* captureCompletedEvent acts on the reader record: completed, err
captureCompletedEvent(r, dataLines) ==
    IF dataLines = <<>> \/ r.completed # "" THEN r
    ELSE IF ~unmarshalEnvelope(dataLines).ok THEN r
    ELSE IF TrimSpaceStr(unmarshalEnvelope(dataLines).type) = "response.completed"
    THEN IF unmarshalEnvelope(dataLines).response \in {"", "null"}
         THEN [r EXCEPT !.err = "response.completed without response field"]
         ELSE [r EXCEPT !.completed = unmarshalEnvelope(dataLines).response]
    ELSE IF TrimSpaceStr(unmarshalEnvelope(dataLines).type) \in {"response.failed", "error"}
    THEN [r EXCEPT !.err = "backend response error"]
    ELSE r

\* the lines reader.ReadString returns with a nil error: every line of the
\* body but a last line that lacks its newline
CompleteLines(u) ==
    IF u.unterminated /\ u.body # <<>> THEN Take(u.body, Len(u.body) - 1) ELSE u.body

newResponsesReader ==
    [pc |-> "read", pos |-> 0, dataLines |-> <<>>, out |-> <<>>,
     completed |-> "", err |-> ""]

InitResponses ==
    /\ tr = Idle /\ sentText = <<>> /\ sentCalls = 0 /\ rq = Idle /\ ct = Idle
    /\ srPipe = <<>> /\ srClosed = "" /\ toolCallChan = <<>>
    /\ cfg \in [stream : BOOLEAN]
    /\ rd = newResponsesReader
    /\ up \in [body : SeqsUpTo(ResponsesLines, MaxBodyLines),
               unterminated : BOOLEAN,
               cancelled : {FALSE}]

\* the request context is cancelled
ResponsesCancel ==
    /\ rd.pc = "read"
    /\ ~up.cancelled
    /\ up' = [up EXCEPT !.cancelled = TRUE]
    /\ UNCHANGED <<rd, ct, pipeVars, streamVars, retryVars>>

\* top of either loop: ctx.Err() != nil
ResponsesCtxDone ==
    /\ rd.pc = "read"
    /\ up.cancelled
    /\ rd' = [rd EXCEPT !.pc = "done", !.err = "context canceled"]
    /\ UNCHANGED <<up, ct, pipeVars, streamVars, retryVars>>

\* the body of the loop of writeResponsesStream for a line read
streamLine(r, line) ==
    IF line.k = "blank"
    THEN IF r.dataLines = <<>> THEN r
         ELSE [r EXCEPT !.out = flushOfficialEvent(r.out, r.dataLines),
                        !.dataLines = <<>>]
    ELSE IF line.k = "data"
    THEN IF line.form = "done" THEN [r EXCEPT !.pc = "done"]
         ELSE IF line.form # "empty"
         THEN [r EXCEPT !.dataLines = Append(@, trimData(line))]
         ELSE r
    ELSE r

\* writeResponsesStream: one iteration that reads a line
StreamReadLine ==
    /\ cfg.stream
    /\ rd.pc = "read"
    /\ ~up.cancelled
    /\ rd.pos < Len(CompleteLines(up))
    /\ rd' = [streamLine(rd, up.body[rd.pos + 1]) EXCEPT !.pos = rd.pos + 1]
    /\ UNCHANGED <<up, ct, pipeVars, streamVars, retryVars>>

\* writeResponsesStream: ReadString returns io.EOF
StreamReadEOF ==
    /\ cfg.stream
    /\ rd.pc = "read"
    /\ ~up.cancelled
    /\ rd.pos = Len(CompleteLines(up))
    /\ rd' = [rd EXCEPT !.out = flushOfficialEvent(rd.out, rd.dataLines),
                        !.pos = Len(up.body),
                        !.pc = "done"]
    /\ UNCHANGED <<up, ct, pipeVars, streamVars, retryVars>>

\* the end of readCompletedResponse, after the loop
missingCompleted(r) ==
    IF r.completed = ""
    THEN [r EXCEPT !.pc = "done",
                   !.err = "missing response.completed.response from backend stream"]
    ELSE [r EXCEPT !.pc = "done"]

\* after captureCompletedEvent on a blank line
afterCapture(r) ==
    IF r.err # "" THEN [r EXCEPT !.pc = "done"]
    ELSE IF r.completed # "" THEN [r EXCEPT !.pc = "done"]
    ELSE [r EXCEPT !.dataLines = <<>>]

\* the body of the loop of readCompletedResponse for a line read
completedLine(r, line) ==
    IF line.k = "blank"
    THEN IF r.dataLines = <<>> THEN r
         ELSE afterCapture(captureCompletedEvent(r, r.dataLines))
    ELSE IF line.k = "data"
    THEN IF line.form = "done" THEN missingCompleted(r)
         ELSE IF line.form # "empty"
         THEN [r EXCEPT !.dataLines = Append(@, trimData(line))]
         ELSE r
    ELSE r

\* readCompletedResponse: one iteration that reads a line
CompletedReadLine ==
    /\ ~cfg.stream
    /\ rd.pc = "read"
    /\ ~up.cancelled
    /\ rd.pos < Len(CompleteLines(up))
    /\ rd' = [completedLine(rd, up.body[rd.pos + 1]) EXCEPT !.pos = rd.pos + 1]
    /\ UNCHANGED <<up, ct, pipeVars, streamVars, retryVars>>

\* at io.EOF: capture the pending lines, then leave the loop
completedAtEOF(r) ==
    IF r.err # "" THEN [r EXCEPT !.pc = "done"] ELSE missingCompleted(r)

\* readCompletedResponse: ReadString returns io.EOF
CompletedReadEOF ==
    /\ ~cfg.stream
    /\ rd.pc = "read"
    /\ ~up.cancelled
    /\ rd.pos = Len(CompleteLines(up))
    /\ rd' = [completedAtEOF(captureCompletedEvent(rd, rd.dataLines)) EXCEPT
                  !.pos = Len(up.body)]
    /\ UNCHANGED <<up, ct, pipeVars, streamVars, retryVars>>

NextResponses ==
    \/ ResponsesCancel
    \/ ResponsesCtxDone
    \/ StreamReadLine
    \/ StreamReadEOF
    \/ CompletedReadLine
    \/ CompletedReadEOF

SpecResponses == InitResponses /\ [][NextResponses]_vars

\* ------------------------------------------------------------------------
\* Properties of the /v1/responses passthrough
\* ------------------------------------------------------------------------
\* The frames of the upstream body: the blocks of lines between blank lines,
\* the last one ended by end-of-input.  end is the number of lines read when
\* the frame is complete; byBlank tells whether a blank line ended it.
RECURSIVE FramesFrom(_, _, _)
FramesFrom(lines, i, cur) ==
    IF i > Len(lines)
    THEN IF cur = <<>> THEN <<>>
         ELSE << [lines |-> cur, end |-> Len(lines), byBlank |-> FALSE] >>
    ELSE IF lines[i].k = "blank"
    THEN (IF cur = <<>> THEN <<>>
          ELSE << [lines |-> cur, end |-> i, byBlank |-> TRUE] >>)
         \o FramesFrom(lines, i + 1, <<>>)
    ELSE FramesFrom(lines, i + 1, Append(cur, lines[i]))

UpstreamFrames == FramesFrom(CompleteLines(up), 1, <<>>)

IsDoneLine(l) == l.k = "data" /\ l.form = "done"
HasSentinel(f) == \E i \in 1..Len(f.lines) : IsDoneLine(f.lines[i])

\* the non-empty data payloads of a frame, without surrounding white space
FrameData(f) ==
    LET keep == SelectSeq(f.lines, LAMBDA l : l.k = "data" /\ l.form # "empty")
    IN  [i \in 1..Len(keep) |-> trimData(keep[i])]

\* the type member of the frame's payload, "" when the payload is not a JSON
\* object or has no type
FrameType(f) ==
    IF unmarshalEnvelope(FrameData(f)).ok
    THEN TrimSpaceStr(unmarshalEnvelope(FrameData(f)).type)
    ELSE ""

\* the frames before the frame that holds the sentinel
RECURSIVE BeforeSentinel(_)
BeforeSentinel(fs) ==
    IF fs = <<>> \/ HasSentinel(Head(fs)) THEN <<>>
    ELSE <<Head(fs)>> \o BeforeSentinel(Tail(fs))

RECURSIVE EventsFor(_)
EventsFor(fs) ==
    IF fs = <<>> THEN <<>>
    ELSE (IF FrameType(Head(fs)) = "" THEN <<>>
          ELSE <<EventLine(FrameType(Head(fs)))>> \o FrameData(Head(fs)) \o <<RespBlank>>)
         \o EventsFor(Tail(fs))

StreamReturned == cfg.stream /\ rd.pc = "done" /\ rd.err = ""

\* C25: when writeResponsesStream returns without a cancelled context, the
\* lines written are, in upstream order, one event (event: <type>, the data
\* lines, a blank line) for each upstream frame with a non-empty type that
\* precedes the sentinel; the sentinel is never written and nothing of what
\* follows it is written.
C25_PassthroughEvents ==
    /\ cfg.stream =>
           \A i \in 1..Len(rd.out) : ~IsDoneLine(rd.out[i])
    /\ StreamReturned => rd.out = EventsFor(BeforeSentinel(UpstreamFrames))

\* a typed frame was re-emitted and the sentinel ended the passthrough
C25_Witness ==
    /\ StreamReturned
    /\ Len(up.body) = 3
    /\ IsDoneLine(up.body[3])
    /\ rd.out = <<EventLine("response.output_text.delta"),
                  RespData("whole", "response.output_text.delta", ""),
                  RespBlank>>

\* two frames were re-emitted in upstream order
C25_WitnessOrder ==
    /\ StreamReturned
    /\ Len(rd.out) = 6
    /\ rd.out[1] = EventLine("response.created")
    /\ rd.out[4] = EventLine("response.output_text.delta")

\* a typed frame after the sentinel was not forwarded
C25_WitnessAfterSentinel ==
    /\ StreamReturned
    /\ Len(up.body) = 3
    /\ IsDoneLine(up.body[1])
    /\ up.body[2] = RespData("whole", "response.output_text.delta", "")
    /\ up.body[3] = RespBlank
    /\ rd.out = <<>>

IsDecisive(f) == FrameType(f) \in {"response.completed", "response.failed", "error"}

Decisive == SelectSeq(BeforeSentinel(UpstreamFrames), IsDecisive)

HasResponse(f) ==
    /\ FrameType(f) = "response.completed"
    /\ unmarshalEnvelope(FrameData(f)).response \notin {"", "null"}

CompletedReturned == ~cfg.stream /\ rd.pc = "done" /\ rd.err # "context canceled"

\* what readCompletedResponse returns: the body, or none with an error
ReturnedBody == IF rd.err = "" THEN rd.completed ELSE ""

\* C26: readCompletedResponse returns the response object of the first
\* response.completed event and has then read nothing beyond the blank line
\* that ends that event; when the stream ends (sentinel or end-of-input)
\* without such an event, or a response.failed / error event comes first,
\* it returns an error and no body.
C26_FirstCompletedOrError ==
    CompletedReturned =>
        IF Decisive # <<>> /\ HasResponse(Decisive[1])
        THEN /\ rd.err = ""
             /\ ReturnedBody = unmarshalEnvelope(FrameData(Decisive[1])).response
             /\ Decisive[1].byBlank => rd.pos = Decisive[1].end
        ELSE /\ rd.err # ""
             /\ ReturnedBody = ""

\* the first of two response.completed events was returned, the second unread
C26_Witness ==
    /\ CompletedReturned
    /\ up.body = <<RespData("whole", "response.completed", "r1"), RespBlank,
                   RespData("whole", "response.completed", "r2")>>
    /\ ~up.unterminated
    /\ ReturnedBody = "r1"
    /\ rd.pos = 2

\* response.failed came first
C26_WitnessFailedFirst ==
    /\ CompletedReturned
    /\ up.body = <<RespData("whole", "response.failed", ""), RespBlank,
                   RespData("whole", "response.completed", "r1")>>
    /\ rd.err = "backend response error"
    /\ ReturnedBody = ""

\* the sentinel arrived with no response.completed event before it
C26_WitnessMissing ==
    /\ CompletedReturned
    /\ Len(up.body) = 3
    /\ IsDoneLine(up.body[3])
    /\ rd.pos = Len(up.body)
    /\ rd.err = "missing response.completed.response from backend stream"

\* ------------------------------------------------------------------------
\* What a retry changes in the request
\* ------------------------------------------------------------------------
CodeInterpreterCount(tools) ==
    Cardinality({i \in 1..Len(tools) : IsToolType(tools[i], ToolTypeCodeInterpreter)})

\* b is a with every code_interpreter definition left out
StrippedOf(a, b) ==
    /\ ~CarriesCodeInterpreter(b)
    /\ IsSubsequence(b, a)
    /\ Len(b) = Len(a) - CodeInterpreterCount(a)

RetryDiffers(k) ==
    /\ rq.requests[k + 1].rest = rq.requests[k].rest
    /\ rq.repairs[k] = "strip" =>
           /\ CarriesCodeInterpreter(rq.requests[k].tools)
           /\ StrippedOf(rq.requests[k].tools, rq.requests[k + 1].tools)
           /\ rq.requests[k + 1].effort = rq.requests[k].effort
    /\ rq.repairs[k] = "effort" =>
           /\ rq.requests[k + 1].tools = rq.requests[k].tools
           /\ LowerWord(TrimSpaceStr(rq.requests[k].effort)) \in {"xhigh", "x-high"}
           /\ rq.requests[k + 1].effort = "high"

\* C27: each retry request differs from the rejected request only in the
\* repaired member: the strip repair removes every code_interpreter
\* definition, keeps the other tools in their order and leaves the effort and
\* the other members alone; the effort repair turns xhigh / x-high into high
\* and leaves the tools and the other members alone.
C27_RetryChangesOnlyRepairedField ==
    \A k \in 1..(Len(rq.requests) - 1) : RetryDiffers(k)

\* both repairs were applied in one call: three requests
C27_Witness ==
    /\ Len(rq.requests) = 3
    /\ rq.repairs = <<"strip", "effort">>
    /\ CodeInterpreterCount(rq.requests[1].tools) = 2
    /\ Len(rq.requests[2].tools) = 1
    /\ rq.requests[2].effort = "XHigh"
    /\ rq.requests[3].effort = "high"
    /\ rq.requests[3].rest = rq.requests[1].rest

\* ------------------------------------------------------------------------
\* normalizeJSONArgumentString as a function of its argument
\* ------------------------------------------------------------------------
ArgAlphabet == {"{", "}", "a", "b", "1", "n", " "}

\* the same characters in another order, or with a blank in front
Respellings(s) ==
    {[i \in 1..Len(s) |-> s[p[i]]] : p \in Permutations(1..Len(s))}
        \cup {<<" ">> \o s}

InitCanon ==
    /\ cfg = Idle /\ tr = Idle /\ sentText = <<>> /\ sentCalls = 0 /\ rq = Idle
    /\ srPipe = <<>> /\ srClosed = "" /\ toolCallChan = <<>> /\ ct = Idle
    /\ up \in [raw : SeqsUpTo(ArgAlphabet, MaxArgLen)]
    /\ rd = [pc |-> "raw", first |-> <<>>, second |-> <<>>,
             other |-> <<>>, otherCanon |-> <<>>]

\* normalizeJSONArgumentString(raw)
Canonicalize ==
    /\ rd.pc = "raw"
    /\ rd' = [rd EXCEPT !.pc = "once", !.first = normalizeJSONArgumentString(up.raw)]
    /\ UNCHANGED <<up, ct, pipeVars, streamVars, retryVars>>

\* normalizeJSONArgumentString applied to its own result
CanonicalizeAgain ==
    /\ rd.pc = "once"
    /\ rd' = [rd EXCEPT !.pc = "twice", !.second = normalizeJSONArgumentString(rd.first)]
    /\ UNCHANGED <<up, ct, pipeVars, streamVars, retryVars>>

\* normalizeJSONArgumentString applied to another spelling
CanonicalizeOther(t) ==
    /\ rd.pc = "twice"
    /\ rd' = [rd EXCEPT !.pc = "done", !.other = t,
                        !.otherCanon = normalizeJSONArgumentString(t)]
    /\ UNCHANGED <<up, ct, pipeVars, streamVars, retryVars>>

NextCanon ==
    \/ Canonicalize
    \/ CanonicalizeAgain
    \/ \E t \in Respellings(up.raw) : CanonicalizeOther(t)

SpecCanon == InitCanon /\ [][NextCanon]_vars

\* two strings decode to the same JSON document
SameDocument(a, b) == JSONEqual(a, b) \/ (IsJSONNull(a) /\ IsJSONNull(b))

\* C28: canonicalization is idempotent on valid JSON (the canonical form of
\* the canonical form is the canonical form), two strings that decode to the
\* same document have the same canonical form, and a string that is not
\* valid JSON is returned trimmed and otherwise unchanged.
C28_CanonicalizationIdempotent ==
    /\ (rd.pc \in {"twice", "done"} /\ IsJSON(up.raw)) => rd.second = rd.first
    /\ (rd.pc = "done" /\ IsJSON(up.raw) /\ SameDocument(up.raw, rd.other)) =>
           rd.otherCanon = rd.first
    /\ (rd.pc \in {"once", "twice", "done"} /\ ~IsJSON(up.raw)) =>
           rd.first = TrimSpace(up.raw)

\* two different spellings of one object, neither in canonical form
C28_Witness ==
    /\ rd.pc = "done"
    /\ IsJSONObject(up.raw)
    /\ SameDocument(up.raw, rd.other)
    /\ rd.other # up.raw
    /\ rd.first # up.raw
    /\ rd.first # rd.other
    /\ rd.otherCanon = rd.first
    /\ rd.second = rd.first

\* a string that is not JSON came back trimmed
C28_WitnessNotJSON ==
    /\ rd.pc = "once"
    /\ ~IsJSON(up.raw)
    /\ rd.first # up.raw
    /\ rd.first # <<>>
    /\ rd.first = TrimSpace(up.raw)

\* ------------------------------------------------------------------------
\* The argument buffers of the Function-Call Accumulator
\* ------------------------------------------------------------------------
\* functionCalls.args[itemID], the empty string for an absent key
BufferOf(fc, i) == IF i \in DOMAIN fc.args THEN fc.args[i] ELSE <<>>

ExtendsBuffer(old, new) == Len(old) <= Len(new) /\ Take(new, Len(old)) = old

\* C29: for each item id the argument buffer is append-only for the whole
\* request: across every event handled, the buffer before is a prefix of
\* the buffer after.
C29_BufferAppendOnly ==
    [][\A i \in DOMAIN rd.functionCalls.args :
           ExtendsBuffer(rd.functionCalls.args[i], BufferOf(rd'.functionCalls, i))]_vars

\* ------------------------------------------------------------------------
\* The status of a tool-call notification
\* ------------------------------------------------------------------------
NotificationStatuses == {"in_progress", "searching", "completed"}

\* C30: every tool-call notification the reader produces from an upstream
\* event has a status that is one of in_progress, searching, completed,
\* whatever the status member of the item says.
C30_NotificationStatus ==
    \A i \in 1..Len(rd.calls) : rd.calls[i].status \in NotificationStatuses

\* ------------------------------------------------------------------------
\* The notifications of the terminal event
\* ------------------------------------------------------------------------
\* the last frame interpreted was a response.completed event with an output
CompletedEventHandled ==
    /\ rd.raw # <<>>
    /\ StringOf(rd.raw[1], "type") = "response.completed"
    /\ IsObject(rd.raw[1], "response")
    /\ IsArray(rd.raw[1]["response"].o, "output")

OutputOfCompleted == rd.raw[1]["response"].o["output"].a

\* an entry of output that describes a function call or a built-in tool call
IsFunctionCallEntry(v) ==
    /\ v.k = "object"
    /\ StringOf(v.o, "type") = "function_call"
    /\ StringOf(v.o, "name") # ""
    /\ StringOf(v.o, "call_id") # ""

IsBuiltInToolEntry(v) ==
    /\ v.k = "object"
    /\ StringOf(v.o, "type") \in {"web_search_call", "code_interpreter_call"}
    /\ StringOf(v.o, "id") # ""

IsToolEntry(v) == IsFunctionCallEntry(v) \/ IsBuiltInToolEntry(v)

\* what the caller is to be told about an entry, given the buffers before
ExpectedOfEntry(v, buffers) ==
    IF IsFunctionCallEntry(v)
    THEN [id |-> StringOf(v.o, "call_id"),
          name |-> StringOf(v.o, "name"),
          args |-> IF TextOf(v.o, "arguments") # <<>>
                   THEN TextOf(v.o, "arguments")
                   ELSE MapGet(buffers, StringOf(v.o, "id"), <<>>)]
    ELSE [id |-> StringOf(v.o, "id"),
          name |-> IF StringOf(v.o, "type") = "web_search_call"
                   THEN "native.web_search" ELSE "native.python_runner",
          args |-> <<>>]

ExpectedNotifications ==
    LET entries == SelectSeq(OutputOfCompleted, IsToolEntry)
    IN  [i \in 1..Len(entries) |-> ExpectedOfEntry(entries[i], rd.prevArgs)]

NotifiedCalls ==
    [i \in 1..Len(rd.calls) |->
        [id |-> rd.calls[i].id, name |-> rd.calls[i].name, args |-> rd.calls[i].args]]

\* C31: the iteration that interprets a response.completed event hands the
\* tool-call handler exactly one notification per function-call or built-in
\* tool entry of response.output, in output order, each call id once; an
\* entry with empty arguments carries the arguments accumulated for its item
\* id; and the reader has returned without error in that same iteration, the
\* notifications being queued by then.
C31_CompletedYieldsEveryCall ==
    CompletedEventHandled =>
        /\ NotifiedCalls = ExpectedNotifications
        /\ \A i, j \in 1..Len(rd.calls) : rd.calls[i].id = rd.calls[j].id => i = j
        /\ rd.pc = "done"
        /\ rd.result.err = NoErr
        /\ srClosed = "eof"

\* the terminal event listed three calls; the first took the fragments
C31_Witness ==
    /\ CompletedEventHandled
    /\ Len(rd.calls) = 3
    /\ rd.prevArgs = [k \in {"i1"} |-> <<"{", "a", "}">>]
    /\ rd.calls[1].id = "c1" /\ rd.calls[1].args = <<"{", "a", "}">>
    /\ rd.calls[2].id = "w1" /\ rd.calls[2].name = "native.web_search"
    /\ rd.calls[3].id = "c2" /\ rd.calls[3].args = <<"{", "b", "}">>
    /\ Len(toolCallChan) >= 3

\* ------------------------------------------------------------------------
\* The Frame Reader under a request context that can be cancelled
\* ------------------------------------------------------------------------
CancelFeeds == {"deltas", "tools"}

InitCancel ==
    /\ cfg = [ctx |-> "live"]
    /\ tr = Idle /\ sentText = <<>> /\ sentCalls = 0 /\ rq = Idle
    /\ srPipe = <<>> /\ srClosed = "" /\ toolCallChan = <<>>
    /\ rd = newReader
    /\ ct = newChunkTranslator
    /\ \E feed \in CancelFeeds :
           up = [feed |-> feed, body |-> <<>>, closed |-> FALSE, last |-> <<>>,
                 writes |-> 0, written |-> <<>>, order |-> <<>>, announced |-> {},
                 fragments |-> EmptyMap, finals |-> EmptyMap]

\* the client goes away or the deadline passes
CancelContext ==
    /\ cfg.ctx = "live"
    /\ cfg' = [cfg EXCEPT !.ctx = "cancelled"]
    /\ UNCHANGED <<tr, sentText, sentCalls, pipeVars, retryVars, readerVars>>

NextCancel ==
    \/ CancelContext
    \/ ReadCtxDone
    \/ NextSSE

SpecCancel == InitCancel /\ [][NextCancel]_vars

\* C32: the context is looked at at the start of every line-read iteration:
\* once it is cancelled, the only step the reader takes is to return the
\* context error with no text; it interprets no frame, sends no text and
\* queues no tool-call notification.
C32_CancelStopsReader ==
    [][(cfg.ctx = "cancelled" /\ rd' # rd) =>
          /\ rd.pc = "read"
          /\ rd'.pc = "done"
          /\ rd'.result = [content |-> <<>>, err |-> ContextCanceled]
          /\ rd'.frames = rd.frames
          /\ rd'.sink = rd.sink
          /\ rd'.fullContent = rd.fullContent
          /\ rd'.functionCalls = rd.functionCalls
          /\ srPipe' = srPipe
          /\ toolCallChan' = toolCallChan
          /\ srClosed' = "err"]_vars

\* cancelled in the middle of a frame, after text had been delivered
C32_Witness ==
    /\ cfg.ctx = "cancelled"
    /\ rd.pc = "done"
    /\ rd.result.err = ContextCanceled
    /\ rd.dataLines # <<>>
    /\ rd.sink # <<>>
    /\ up.body # <<>>

\* ------------------------------------------------------------------------
\* Frames and lines the Frame Reader passes over
\* ------------------------------------------------------------------------
\* the step is an iteration of the reader on a line that ended with a newline
LineIteration == rd.pc = "read" /\ up.body # <<>> /\ up'.body = Tail(up.body)
\* the step is an iteration of the reader, on a line or at the end of the body
ReaderIteration == rd.pc = "read" /\ (LineIteration \/ rd'.pc = "done")

\* the iteration interpreted a frame whose payload does not decode
UndecodableFrame ==
    ReaderIteration /\ rd'.frames = rd.frames + 1 /\ Unmarshal(rd'.payload) = <<>>

\* the iteration read a line that is neither blank nor a data: line
ForeignLine ==
    /\ LineIteration
    /\ TrimRightCRLF(Head(up.body)) # <<>>
    /\ Head(TrimRightCRLF(Head(up.body))) # DataField

\* what the reader has accumulated and handed on is the same after the step
ReaderEffectless ==
    /\ rd'.fullContent = rd.fullContent
    /\ rd'.hasDelta = rd.hasDelta
    /\ rd'.functionCalls = rd.functionCalls
    /\ rd'.sink = rd.sink
    /\ rd'.calls = <<>>
    /\ rd'.delta = <<>>
    /\ srPipe' = srPipe
    /\ toolCallChan' = toolCallChan
    /\ rd'.err = NoErr

\* C34: a frame whose payload is not valid JSON has no effect: the content,
\* the has-delta flag and the function-call state stay as they are, nothing
\* goes to the text sink or to the tool-call callback, no error is returned
\* and the reader goes on with an empty frame buffer (at the end of the body
\* it returns the content so far); a line without the data: prefix changes
\* nothing, the data lines buffered for the current frame included.
C34_UndecodableFrameDropped ==
    [][/\ UndecodableFrame =>
              /\ ReaderEffectless
              /\ IF rd'.eof
                 THEN /\ rd'.pc = "done"
                      /\ rd'.result = [content |-> rd.fullContent, err |-> NoErr]
                 ELSE rd'.pc = "read" /\ rd'.dataLines = <<>>
       /\ ForeignLine =>
              /\ ReaderEffectless
              /\ rd'.pc = "read"
              /\ rd'.dataLines = rd.dataLines
              /\ rd'.frames = rd.frames]_vars

\* half a document was a frame of its own after text had been delivered,
\* and the reader is reading on
C34_Witness ==
    /\ rd.pc = "read"
    /\ rd.frames >= 2
    /\ rd.payload # <<>>
    /\ Unmarshal(rd.payload) = <<>>
    /\ rd.fullContent # <<>>
    /\ up.body # <<>>

\* a line without the data: prefix was read in the middle of a frame
C34_WitnessForeignLine ==
    /\ rd.pc = "read"
    /\ rd.line # <<>>
    /\ Head(rd.line) = Tok("event:")
    /\ rd.dataLines # <<>>

\* ------------------------------------------------------------------------
\* Failure events
\* ------------------------------------------------------------------------
UnknownError == <<"u", "n", "k">>
IsFailureEvent(e) == StringOf(e, "type") \in {"response.failed", "error"}

\* the iteration interpreted a frame whose payload decodes
DecodedFrame ==
    ReaderIteration /\ rd'.frames = rd.frames + 1 /\ rd'.raw # <<>>

\* the message of a failure event: error.message when error is an object
\* with a string message, else the top-level message; "unknown error" when
\* the one so chosen is empty
MessageOfFailure(e) ==
    IF IsObject(e, "error") /\ IsString(e["error"].o, "message")
    THEN IF e["error"].o["message"].s = <<>> THEN UnknownError
         ELSE e["error"].o["message"].s
    ELSE IF TextOf(e, "message") = <<>> THEN UnknownError
    ELSE TextOf(e, "message")

\* the message by the chain of non-empty messages: error.message, then the
\* top-level message, then "unknown error"
FirstNonEmptyMessage(e) ==
    IF IsObject(e, "error") /\ TextOf(e["error"].o, "message") # <<>>
    THEN e["error"].o["message"].s
    ELSE IF TextOf(e, "message") # <<>> THEN TextOf(e, "message")
    ELSE UnknownError

\* a failure event ends the reader with an error of the given message and no
\* text; no other event gives an error; a reader that returned reads no more
FailureIsOnlyError(message(_)) ==
    /\ DecodedFrame /\ IsFailureEvent(rd'.raw[1]) =>
           /\ rd'.pc = "done"
           /\ rd'.result = [content |-> <<>>,
                            err |-> [kind |-> "backend",
                                     message |-> message(rd'.raw[1])]]
           /\ rd'.sink = rd.sink
           /\ srClosed' = "err"
    /\ DecodedFrame /\ ~IsFailureEvent(rd'.raw[1]) =>
           /\ rd'.err.kind \in {"none", "done"}
           /\ rd'.pc = "done" => rd'.result = [content |-> rd'.fullContent, err |-> NoErr]
    /\ rd'.result.err # NoErr => rd'.result.err.kind = "backend"
    /\ rd.pc = "done" => rd'.frames = rd.frames /\ rd'.sink = rd.sink /\ rd'.result = rd.result

\* C35: a response.failed or error event is the only event that makes the
\* reader fail: it returns an error with error.message when error is an
\* object with a string message, else with the top-level message, and with
\* "unknown error" when the message so chosen is empty (an empty
\* error.message is not replaced by the top-level message); it returns no
\* text even if deltas were accumulated and interprets no later frame; no
\* other event type produces an error.
C35_FailureIsOnlyError == [][FailureIsOnlyError(MessageOfFailure)]_vars

\* C35 as stated: the message is the first non-empty one of error.message,
\* the top-level message and "unknown error"
C35_Original == [][FailureIsOnlyError(FirstNonEmptyMessage)]_vars

\* text was delivered, then an error event with both messages ended the
\* reader with the nested one
C35_Witness ==
    /\ rd.pc = "done"
    /\ rd.raw = <<ErrorEvent(<<"n", "o">>, <<"x">>)>>
    /\ rd.fullContent # <<>>
    /\ rd.sink # <<>>
    /\ rd.result = [content |-> <<>>, err |-> BackendError(<<"n", "o">>)]

\* the top-level message alone, and no message at all
C35_WitnessTopLevel ==
    /\ rd.raw = <<ErrorTopLevel(<<"x">>)>>
    /\ rd.result.err = BackendError(<<"x">>)
C35_WitnessUnknown ==
    /\ rd.raw = <<ErrorBare>>
    /\ rd.result.err.message = UnknownError

\* an empty error.message hides the top-level message
C35_WitnessEmptyNested ==
    /\ rd.raw = <<ErrorEvent(<<>>, <<"x">>)>>
    /\ rd.result.err.message = UnknownError

\* ------------------------------------------------------------------------
\* The non-streaming path (openaihttp/claude.go, limitClaudeText)
\* ------------------------------------------------------------------------
\* limitClaudeText once the first stop sequence is found; result: the
\* limited text, the reason ("" when nothing cut it) and the stop sequence
limitAt(text, stop, maxTokens) ==
    IF /\ maxTokens > 0
       /\ maxCharsOf(maxTokens) < (IF stop.ok THEN stop.idx ELSE Len(text))
    THEN [text |-> Take(text, maxCharsOf(maxTokens)), reason |-> "max_tokens", seq |-> <<>>]
    ELSE IF stop.ok
    THEN [text |-> Take(text, stop.idx), reason |-> "stop_sequence", seq |-> stop.seq]
    ELSE [text |-> text, reason |-> "", seq |-> <<>>]

limitClaudeText(text, stopSequences, maxTokens) ==
    IF text = <<>> THEN [text |-> <<>>, reason |-> "", seq |-> <<>>]
    ELSE limitAt(text, findFirstClaudeStopSequence(text, stopSequences), maxTokens)

\* the stop reason and stop sequence handleMessages answers with when no
\* tool_use block was built
nonStreamingStop(limit) ==
    IF limit.reason # "" THEN [reason |-> limit.reason, seq |-> limit.seq]
    ELSE [reason |-> "end_turn", seq |-> <<>>]

\* the worker delivered its whole text and no tool call and closed without
\* an error, and the translator has written its terminal events
TextOnlyResponseDone ==
    tr.pc = "done" /\ srClosed = "eof" /\ sentCalls = 0

\* C36: for the same complete upstream text, stop sequences and max_tokens,
\* and no tool calls, the streamed text, the stop reason and the stop
\* sequence equal what limitClaudeText and the non-streaming handler give,
\* however the text was split into increments.
C36_StreamingAgreesWithLimit ==
    TextOnlyResponseDone =>
        /\ EmittedText(tr.out)
               = limitClaudeText(sentText, cfg.stopSequences, cfg.maxTokens).text
        /\ MessageDelta(tr.out).btype
               = nonStreamingStop(limitClaudeText(sentText, cfg.stopSequences,
                                                  cfg.maxTokens)).reason
        /\ MessageDelta(tr.out).text
               = nonStreamingStop(limitClaudeText(sentText, cfg.stopSequences,
                                                  cfg.maxTokens)).seq

\* ------------------------------------------------------------------------
\* What the attempts of one request deliver
\* ------------------------------------------------------------------------
\* attempt k was followed by a repair retry
FollowedByRetry(k) == k < Len(rq.requests) \/ (k = Len(rq.requests) /\ rq.pc = "attempt")

\* C37: an attempt that is followed by a repair retry has delivered no text
\* increment and no tool-call notification, so all that the sink and the
\* tool-call handler received comes from the last attempt.
C37_RetryDeliversNothingTwice ==
    /\ \A k \in 1..Len(rq.delivered) :
           FollowedByRetry(k) => rq.delivered[k] = NothingDelivered
    /\ rq.pc = "done" =>
           /\ rq.sink = rq.delivered[Len(rq.delivered)].text
           /\ rq.notified = rq.delivered[Len(rq.delivered)].calls

\* after two repairs the third attempt delivered text and a notification
\* and then failed with an error event whose text names a repair class
C37_Witness ==
    /\ rq.pc = "done"
    /\ Len(rq.requests) = 3
    /\ rq.responses[3].kind = "failed"
    /\ rq.sink = <<"o", "k">>
    /\ rq.notified = 1
    /\ ~rq.result.ok

\* a stream that fails with the text of the strip repair, with the tool
\* still in the payload and the repair still unused, is not retried
C37_WitnessNoRetryAfterStream ==
    /\ rq.pc = "done"
    /\ Len(rq.requests) = 1
    /\ rq.responses[1].kind = "failed"
    /\ IsUnsupportedToolTypeError(rq.responses[1].msg, ToolTypeCodeInterpreter)
    /\ CarriesCodeInterpreter(rq.requests[1].tools)
    /\ rq.delivered[1] = Delivered(<<"o", "k">>, 1)

\* ------------------------------------------------------------------------
\* The Stream Translator after a stop condition
\* ------------------------------------------------------------------------
\* the step in which a stop condition triggers
StopTriggerStep == ~tr.stopTriggered /\ tr'.stopTriggered

\* the content_block_start events of the tool_use blocks written
ToolUseStarts(o) == SelectSeq(o, IsToolUseStart)

\* C38: once a stop condition has triggered, no text_delta and no tool_use
\* block is emitted any more: the step that triggers it drops the rest of
\* the buffer, writes no tool_use block and leaves the receive loop; after
\* it the translator only writes its closing events, and takes nothing more
\* from the text pipe or the tool-call queue.
C38_NothingAfterStop ==
    [][/\ StopTriggerStep =>
              /\ tr'.textBuf = <<>>
              /\ ToolUseStarts(tr'.out) = ToolUseStarts(tr.out)
              /\ tr'.pc \in {"finish", "done"}
       /\ (tr.stopTriggered /\ tr' # tr) =>
              /\ tr.pc = "finish" /\ tr'.pc = "done"
              /\ tr'.stopTriggered
              /\ EmittedText(tr'.out) = EmittedText(tr.out)
              /\ ToolUseStarts(tr'.out) = ToolUseStarts(tr.out)
              /\ srPipe' = srPipe
              /\ toolCallChan' = toolCallChan]_vars

\* a stop sequence ended a response while a completed call was queued and
\* text was waiting in the pipe: neither was emitted
C38_Witness ==
    /\ tr.pc = "done"
    /\ tr.stopTriggered
    /\ tr.trig = <<"stop_sequence">>
    /\ toolCallChan = << [id |-> "c1", name |-> "f", args |-> <<"{", "a", "}">>,
                           status |-> "completed"] >>
    /\ srPipe # <<>>
    /\ ToolUseStarts(tr.out) = <<>>
    /\ Len(EmittedText(tr.out)) < Len(sentText) - Len(srPipe[1])

\* the same for max_tokens
C38_WitnessMaxTokens ==
    /\ tr.pc = "done"
    /\ tr.trig = <<"max_tokens">>
    /\ toolCallChan # <<>>
    /\ ToolUseStarts(tr.out) = <<>>

\* ------------------------------------------------------------------------
\* tool_use blocks per call id
\* ------------------------------------------------------------------------
\* C39: within one response the Stream Translator writes at most one
\* tool_use block per call id, whatever notifications arrive for the call.
C39_OneToolUsePerCallID ==
    up.feed = "messages" =>
        \A i, j \in 1..Len(tr.out) :
            (IsToolUseStart(tr.out[i]) /\ IsToolUseStart(tr.out[j]) /\ i # j)
                => tr.out[i].id # tr.out[j].id

\* ------------------------------------------------------------------------
\* One streaming request of the messages endpoint: the reader worker of
\* ChatModel.Stream and writeMessagesStream as two processes
\* ------------------------------------------------------------------------
MaxLiveFrames == 4

\* what the frames of a response body bring
LiveFrames ==
    { [kind |-> "text", delta |-> <<"S">>],
      [kind |-> "text", delta |-> <<"T">>],
      [kind |-> "call",
       call |-> [id |-> "c1", name |-> "f", args |-> <<"{", "a", "}">>,
                 status |-> "completed"]],
      [kind |-> "failed"] }

\* the request context: cancel() is called when a stop condition triggers,
\* and deferred by handleMessages to the return of writeMessagesStream
requestCancelled(t) == t.cancelled \/ t.pc = "done"

\* variant: the stream reader is never closed
receiverClosed_Mut(t) == FALSE

\* defer sr.Close() in writeMessagesStream
receiverClosed(t) == t.pc = "done"

\* the worker: at the top of the read loop (read), inside sw.Send with a
\* text increment (send), before sw.Send(nil, err) (senderr), before the
\* deferred sw.Close() (close), or gone (closed); unblocked records a Send
\* that found the pipe full and returned because the receiver was closed
newWorker == [pc |-> "read", pending |-> <<>>, unblocked |-> FALSE]

InitLive ==
    /\ cfg \in [stopSequences : {<<>>, << <<"T">> >>},
                maxTokens : {1},
                disableParallelToolUse : {FALSE}]
    /\ tr = newStreamTranslator
    /\ rd = newWorker
    /\ up \in [body : SeqsUpTo(LiveFrames, MaxLiveFrames)]
    /\ srPipe = <<>> /\ srClosed = "" /\ toolCallChan = <<>>
    /\ sentText = <<>> /\ sentCalls = 0
    /\ rq = Idle /\ ct = Idle

\* readBackendSSE: if ctx.Err() != nil { return "", ctx.Err() }
ReaderCtxDone ==
    /\ rd.pc = "read"
    /\ requestCancelled(tr)
    /\ rd' = [rd EXCEPT !.pc = "senderr"]
    /\ UNCHANGED <<up, ct, pipeVars, streamVars, retryVars>>

\* the body is at its end: the content is returned
ReaderEOF ==
    /\ rd.pc = "read"
    /\ ~requestCancelled(tr)
    /\ up.body = <<>>
    /\ rd' = [rd EXCEPT !.pc = "close"]
    /\ UNCHANGED <<up, ct, pipeVars, streamVars, retryVars>>

\* a frame with a text increment: onDelta calls sw.Send
ReaderText ==
    /\ rd.pc = "read"
    /\ ~requestCancelled(tr)
    /\ up.body # <<>>
    /\ Head(up.body).kind = "text"
    /\ rd' = [rd EXCEPT !.pc = "send", !.pending = Head(up.body).delta]
    /\ up' = [up EXCEPT !.body = Tail(@)]
    /\ UNCHANGED <<ct, pipeVars, streamVars, retryVars>>

\* a frame with a function call: the handler's send does not block
ReaderToolCall ==
    /\ rd.pc = "read"
    /\ ~requestCancelled(tr)
    /\ up.body # <<>>
    /\ Head(up.body).kind = "call"
    /\ toolCallChan' = handleToolCalls(toolCallChan, <<Head(up.body).call>>)
    /\ up' = [up EXCEPT !.body = Tail(@)]
    /\ UNCHANGED <<rd, ct, srPipe, srClosed, streamVars, retryVars>>

\* a response.failed or error event: the reader returns its error
ReaderFailed ==
    /\ rd.pc = "read"
    /\ ~requestCancelled(tr)
    /\ up.body # <<>>
    /\ Head(up.body).kind = "failed"
    /\ rd' = [rd EXCEPT !.pc = "senderr"]
    /\ up' = [up EXCEPT !.body = Tail(@)]
    /\ UNCHANGED <<ct, pipeVars, streamVars, retryVars>>

\* sw.Send puts the increment into the pipe once there is room
SendDelivered ==
    /\ rd.pc = "send"
    /\ ~receiverClosed(tr)
    /\ Len(srPipe) < PipeCap
    /\ srPipe' = Append(srPipe, rd.pending)
    /\ sentText' = sentText \o rd.pending
    /\ rd' = [rd EXCEPT !.pc = "read", !.pending = <<>>]
    /\ UNCHANGED <<cfg, tr, sentCalls, srClosed, toolCallChan, up, ct, retryVars>>

\* sw.Send returns without sending once the receiver is closed
SendClosed ==
    /\ rd.pc = "send"
    /\ receiverClosed(tr)
    /\ rd' = [rd EXCEPT !.pc = "read", !.pending = <<>>,
                        !.unblocked = @ \/ Len(srPipe) >= PipeCap]
    /\ UNCHANGED <<up, ct, pipeVars, streamVars, retryVars>>

\* sw.Send(nil, err), which waits for room like any Send, then sw.Close()
SendErr ==
    /\ rd.pc = "senderr"
    /\ receiverClosed(tr) \/ Len(srPipe) < PipeCap
    /\ srClosed' = "err"
    /\ rd' = [rd EXCEPT !.pc = "closed", !.unblocked = @ \/ Len(srPipe) >= PipeCap]
    /\ UNCHANGED <<srPipe, toolCallChan, up, ct, streamVars, retryVars>>

\* the deferred sw.Close() after a return without error
CloseWriter ==
    /\ rd.pc = "close"
    /\ srClosed' = "eof"
    /\ rd' = [rd EXCEPT !.pc = "closed"]
    /\ UNCHANGED <<srPipe, toolCallChan, up, ct, streamVars, retryVars>>

LiveWorker ==
    \/ ReaderCtxDone
    \/ ReaderEOF
    \/ ReaderText
    \/ ReaderToolCall
    \/ ReaderFailed
    \/ SendDelivered
    \/ SendClosed
    \/ SendErr
    \/ CloseWriter

LiveTranslator ==
    \/ FlushToolCalls
    \/ RecvText
    \/ RecvErr
    \/ FinishStream

NextLive == LiveWorker \/ LiveTranslator

\* when LiveTranslator can take a step, and the steps that are its own
TranslatorEnabled ==
    \/ tr.pc = "flush"
    \/ tr.pc = "recv" /\ (srPipe # <<>> \/ srClosed # "")
    \/ tr.pc = "finish"
TranslatorStep == tr' # tr

\* weak fairness of LiveTranslator, written out with its enabling condition
TranslatorFair == []<>(~TranslatorEnabled) \/ []<><<TranslatorStep>>_vars

\* both are goroutines that run whenever they can take a step
SpecLive ==
    InitLive /\ [][NextLive]_vars /\ WF_vars(LiveWorker) /\ TranslatorFair

\* C40: under fair scheduling the translator eventually writes message_stop
\* and returns, and the reader worker eventually leaves sw.Send, exits and
\* closes the pipe, also when a stop condition ended the translator early.
C40_StreamingTerminates ==
    <>[](/\ tr.pc = "done"
         /\ tr.out[Len(tr.out)].ev = "message_stop"
         /\ rd.pc = "closed"
         /\ srClosed # "")

\* a stop condition ended the translator while the worker stood in sw.Send
\* with the pipe full; the worker left it and closed the pipe
C40_Witness ==
    /\ tr.pc = "done"
    /\ tr.stopTriggered
    /\ rd.pc = "closed"
    /\ rd.unblocked
    /\ srPipe # <<>>
    /\ up.body # <<>>

====
